---- MODULE Spec2Model ----
(***************************************************************************)
(* Congestion estimator and adaptive traffic-signal controller of the      *)
(* AI traffic management system, as implemented by                         *)
(*   YoloWebStreamer      (yolo_web_streamer.py)                           *)
(*   YoloVideoDisplay     (yolo_video_display.py)                          *)
(*   TrafficDetector      (yolo_traffic_detector.py)                       *)
(*   WorkingYoloDetector  (working_yolo.py)                                *)
(* together with the subscribers of the WebSocket broadcast (handlers,     *)
(* broadcast_data, the queue of WorkingTrafficDetector in simple_yolo.py)  *)
(* and the start/stop lifecycle of YoloWebStreamer.                        *)
(* Time is counted in whole seconds.  An average is kept as the exact      *)
(* fraction num/den that Python's sum(..)/len(..) evaluates.               *)
(***************************************************************************)
EXTENDS Integers, Sequences, FiniteSets, TLC

VARIABLES
    program,      \* which entry point of the repository is running
    now,          \* time.time()
    ws,           \* the YoloWebStreamer instance and the locals of generate_frames
    vd,           \* the YoloVideoDisplay instance and the locals of run
    td,           \* the TrafficDetector instance and the locals of process_video
    wy,           \* the WorkingYoloDetector instance and the locals of process_video
    fed,          \* history variable: every count submitted so far, in order
    sim_time,     \* history variable: sum of the tick deltas so far
    transitions,  \* history variable: number of signal changes so far
    conn,         \* per websocket: where its websocket_handler coroutine stands
    pub,          \* the activation of broadcast_data / broadcast_loop and its locals
    received,     \* per websocket: the publishes whose message it was sent
    reg,          \* history variable: per websocket, the publishes made before it was added
    wt,           \* the WorkingTrafficDetector instance, its data_queue and thread locals
    life,         \* YoloWebStreamer.streaming, .cap and the locals of generate_frames
    stopped,      \* history variable: stop_streaming has been called
    loops,        \* per Flask request thread: where its generate_frames stands, and its locals
    entered,      \* history variable: the sim_time at which the signal last changed
    pt            \* parse_traffic.py: the roads read and the locals of build_graph and __main__

\* the subscriber side: connections, the publish in progress, what was delivered
net == <<conn, pub, received, reg>>

vars == <<program, now, ws, vd, td, wy, fed, sim_time, transitions, net, wt, life, stopped, loops, entered, pt>>

Programs == {"YoloWebStreamer", "YoloVideoDisplay", "TrafficDetector", "WorkingYoloDetector",
             "WorkingTrafficDetector", "parse_traffic"}

(***************************************************************************)
(* Bounds of the model                                                     *)
(***************************************************************************)
MaxTime == 72        \* the clock of the absolute-time variants stops here
MaxVaried == 2       \* frames after which the traffic is steady
MaxEstVaried == 3    \* the same, in the estimator runs
MaxEstTime == 1      \* the clock of the estimator runs stops here
MaxFed == 34         \* submissions of an estimator run
MaxZeros == 7        \* leading zeros of a scenario run
MaxSimTime == 60     \* simulated seconds of the constant-congestion run
MaxFrames == 5       \* frames processed by WorkingYoloDetector
MaxVideoFrames == 2  \* frames of the longest video file

Counts == {0, 5, 20}                 \* vehicle counts the detector reports
EstCounts == {0, 5, 15, 20}          \* counts of the estimator runs
HighCounts == {15, 20}               \* counts of the constant-congestion run
Deltas == {0, 1, 2, 70}              \* seconds between two calls of update_traffic_signal
LoopDeltas == {0, 1, 2, 16, 70}      \* current_time - last_time of a process_video loop
EstDeltas == {0, 1}
HighDeltas == {0, 1, 2, 3, 15, 35}
Clients == {"c1"}
Websockets == {"c1", "c2", "c3"}     \* the connections a WebSocket server may accept
SendOutcomes == {"ok", "ConnectionClosed", "Exception"}   \* how client.send(message) ends

(***************************************************************************)
(* Helpers                                                                 *)
(***************************************************************************)
RECURSIVE Sum(_)
Sum(s) == IF s = <<>> THEN 0 ELSE s[1] + Sum(Tail(s))

LastK(s, k) == IF Len(s) <= k THEN s ELSE SubSeq(s, Len(s) - k + 1, Len(s))

Min(a, b) == IF a < b THEN a ELSE b

\* sum(xs) / len(xs) if xs else 0
Average(xs) ==
    IF xs # <<>> THEN [num |-> Sum(xs), den |-> Len(xs)] ELSE [num |-> 0, den |-> 1]

\* avg < k for the fraction avg
Below(avg, k) == avg.num < k * avg.den

\* collections.deque(maxlen=n).append(x)
DequeAppend(d, x, n) == IF Len(d) >= n THEN Append(Tail(d), x) ELSE Append(d, x)

\* list.append(x) followed by pop(0) when the list is longer than 30
\* (Keep30DropNewest: the variant that drops the new count instead)
Keep30DropNewest(h, x) == IF Len(h) + 1 > 30 THEN SubSeq(h, 1, 30) ELSE Append(h, x)
Keep30(h, x) == IF Len(h) + 1 > 30 THEN Tail(Append(h, x)) ELSE Append(h, x)

\* (signal_timingsOneTable: the variant that uses the Green row for Red too)
signal_timingsOneTable ==
    [green  |-> [low |-> 30, medium |-> 20, high |-> 15],
     yellow |-> 3,
     red    |-> [low |-> 30, medium |-> 20, high |-> 15]]
signal_timings ==
    [green  |-> [low |-> 30, medium |-> 20, high |-> 15],
     yellow |-> 3,
     red    |-> [low |-> 15, medium |-> 25, high |-> 35]]


(***************************************************************************)
(* YoloWebStreamer (yolo_web_streamer.py)                                  *)
(***************************************************************************)
\* if avg_vehicles < 5 ... elif avg_vehicles < 15 ... else
\* (WS_congestion_levelInclusive: the variant with <= at both thresholds)
WS_congestion_levelInclusive(avg_vehicles) ==
    IF avg_vehicles.num <= 5 * avg_vehicles.den THEN "low"
    ELSE IF avg_vehicles.num <= 15 * avg_vehicles.den THEN "medium"
    ELSE "high"
WS_congestion_level(avg_vehicles) ==
    IF Below(avg_vehicles, 5) THEN "low"
    ELSE IF Below(avg_vehicles, 15) THEN "medium"
    ELSE "high"

\* the if/elif/else chain "Traffic signal logic"; reset tells whether the
\* branch assigned last_signal_time = current_time and signal_timer = 0
\* (WS_signal_logicSkipYellow: the variant whose Green branch goes to Red;
\*  WS_signal_logicCatchUp: the variant that keeps advancing while the
\*  elapsed time covers further dwell times)
WS_signal_logicSkipYellow(current_signal, elapsed, congestion_level) ==
    IF current_signal = "green" THEN
        IF elapsed > signal_timings.green[congestion_level]
        THEN [current_signal |-> "red", reset |-> TRUE]
        ELSE [current_signal |-> current_signal, reset |-> FALSE]
    ELSE IF current_signal = "yellow" THEN
        IF elapsed > signal_timings.yellow
        THEN [current_signal |-> "red", reset |-> TRUE]
        ELSE [current_signal |-> current_signal, reset |-> FALSE]
    ELSE
        IF elapsed > signal_timings.red[congestion_level]
        THEN [current_signal |-> "green", reset |-> TRUE]
        ELSE [current_signal |-> current_signal, reset |-> FALSE]
WS_signal_logicCatchUp(current_signal, elapsed, congestion_level) ==
    IF current_signal = "green" THEN
        IF elapsed > signal_timings.green[congestion_level] + signal_timings.yellow
        THEN [current_signal |-> "red", reset |-> TRUE]
        ELSE IF elapsed > signal_timings.green[congestion_level]
        THEN [current_signal |-> "yellow", reset |-> TRUE]
        ELSE [current_signal |-> current_signal, reset |-> FALSE]
    ELSE IF current_signal = "yellow" THEN
        IF elapsed > signal_timings.yellow + signal_timings.red[congestion_level]
        THEN [current_signal |-> "green", reset |-> TRUE]
        ELSE IF elapsed > signal_timings.yellow
        THEN [current_signal |-> "red", reset |-> TRUE]
        ELSE [current_signal |-> current_signal, reset |-> FALSE]
    ELSE
        IF elapsed > signal_timings.red[congestion_level] + signal_timings.green[congestion_level]
        THEN [current_signal |-> "yellow", reset |-> TRUE]
        ELSE IF elapsed > signal_timings.red[congestion_level]
        THEN [current_signal |-> "green", reset |-> TRUE]
        ELSE [current_signal |-> current_signal, reset |-> FALSE]
WS_signal_logic(current_signal, elapsed, congestion_level) ==
    IF current_signal = "green" THEN
        IF elapsed > signal_timings.green[congestion_level]
        THEN [current_signal |-> "yellow", reset |-> TRUE]
        ELSE [current_signal |-> current_signal, reset |-> FALSE]
    ELSE IF current_signal = "yellow" THEN
        IF elapsed > signal_timings.yellow
        THEN [current_signal |-> "red", reset |-> TRUE]
        ELSE [current_signal |-> current_signal, reset |-> FALSE]
    ELSE
        IF elapsed > signal_timings.red[congestion_level]
        THEN [current_signal |-> "green", reset |-> TRUE]
        ELSE [current_signal |-> current_signal, reset |-> FALSE]

\* update_traffic_signal(vehicle_count) called at time current_time: the
\* fields of self after the call, and the returned congestion_level
WS_update_traffic_signal(self, vehicle_count, current_time) ==
    LET elapsed == current_time - self.last_signal_time
        vehicle_history == Keep30(self.vehicle_history, vehicle_count)
        avg_vehicles == Average(vehicle_history)
        congestion_level == WS_congestion_level(avg_vehicles)
        logic == WS_signal_logic(self.current_signal, elapsed, congestion_level)
    IN  [self EXCEPT
            !.vehicle_history = vehicle_history,
            !.current_signal = logic.current_signal,
            !.last_signal_time = IF logic.reset THEN current_time ELSE @,
            !.signal_timer = IF logic.reset THEN 0 ELSE elapsed,
            !.avg_vehicles = avg_vehicles,
            !.congestion_level = congestion_level]

\* one pass of the while loop of generate_frames over a frame that was read:
\* detection yields vehicle_count, the signal simulation is updated and the
\* snapshot is built for the WebSocket clients
\* (WS_generate_framesOnlyForClients: the variant that skips the update when
\*  no client is connected)
WS_generate_framesOnlyForClients(vehicle_count, dt) ==
    LET current_time == now + dt
        self == WS_update_traffic_signal(ws, vehicle_count, current_time)
        data == [vehicle_count |-> vehicle_count,
                 avg_vehicle_count |-> Average(self.vehicle_history),
                 congestion_level |-> self.congestion_level,
                 traffic_signal |-> self.current_signal,
                 signal_timer |-> self.signal_timer]
    IN  /\ now' = current_time
        /\ ws' = IF ws.websocket_clients # {} THEN [self EXCEPT !.data = <<data>>] ELSE ws
        /\ UNCHANGED <<program, vd, td, wy>>
WS_generate_frames(vehicle_count, dt) ==
    LET current_time == now + dt
        self == WS_update_traffic_signal(ws, vehicle_count, current_time)
        data == [vehicle_count |-> vehicle_count,
                 avg_vehicle_count |-> Average(self.vehicle_history),
                 congestion_level |-> self.congestion_level,
                 traffic_signal |-> self.current_signal,
                 signal_timer |-> self.signal_timer]
    IN  /\ now' = current_time
        /\ ws' = [self EXCEPT
                    !.data = IF self.websocket_clients # {} THEN <<data>> ELSE @]
        /\ UNCHANGED <<program, vd, td, wy>>

WS_init(clients) ==
    [current_signal |-> "green", signal_timer |-> 0, last_signal_time |-> 0,
     vehicle_history |-> <<>>, websocket_clients |-> clients,
     avg_vehicles |-> Average(<<>>), congestion_level |-> "none", data |-> <<>>]

(***************************************************************************)
(* Subscribers of YoloWebStreamer: websocket_handler and broadcast_data.   *)
(* conn[w] is "new" before the server accepts w, "open" while the handler  *)
(* of w awaits wait_closed(), "closed" once the handler has returned and   *)
(* "KeyError" if its removal raised.  broadcast_data runs in the Flask     *)
(* thread, the handlers in the asyncio thread, so the two interleave at    *)
(* every step.                                                             *)
(***************************************************************************)
\* set.remove: raises KeyError for an absent element
remove(s, x) == [set |-> s \ {x}, raised |-> x \notin s]

\* set.discard
discard(s, x) == [set |-> s \ {x}, raised |-> FALSE]

\* a send on a connection that is closed raises ConnectionClosed
Outcomes(websocket) ==
    IF conn[websocket] = "open" THEN SendOutcomes ELSE {"ConnectionClosed"}

pub_init ==
    [pc |-> "idle", id |-> 0, copy |-> {}, visited |-> {}, used |-> 0,
     cur |-> "none", disconnected |-> {}, raised |-> "none"]

\* the handler replays the publishes made so far to the websocket it adds
WS_websocket_handler_addReplay(websocket) ==
    /\ conn[websocket] = "new"
    /\ ws' = [ws EXCEPT !.websocket_clients = @ \cup {websocket}]
    /\ conn' = [conn EXCEPT ![websocket] = "open"]
    /\ received' = [received EXCEPT ![websocket] = 1..pub.id]
    /\ UNCHANGED pub

\* websocket_handler up to its await: the websocket joins the set
WS_websocket_handler_add(websocket) ==
    /\ conn[websocket] = "new"
    /\ ws' = [ws EXCEPT !.websocket_clients = @ \cup {websocket}]
    /\ conn' = [conn EXCEPT ![websocket] = "open"]
    /\ UNCHANGED <<pub, received>>

\* websocket_handler after wait_closed(): the finally clause
WS_websocket_handler_finally(websocket) ==
    LET removed == discard(ws.websocket_clients, websocket)
    IN  /\ conn[websocket] = "open"
        /\ ws' = [ws EXCEPT !.websocket_clients = removed.set]
        /\ conn' = [conn EXCEPT ![websocket] = IF removed.raised THEN "KeyError" ELSE "closed"]
        /\ UNCHANGED <<pub, received>>

\* generate_frames over one frame, and the entry of broadcast_data: with a
\* client connected the snapshot is published to a copy of the set
WS_publish(vehicle_count, dt) ==
    /\ pub.pc = "idle"
    /\ WS_generate_frames(vehicle_count, dt)
    /\ pub' = IF ws'.websocket_clients # {}
              THEN [pub EXCEPT !.pc = "sending", !.id = @ + 1,
                               !.copy = ws'.websocket_clients,
                               !.visited = {}, !.disconnected = {}]
              ELSE pub
    /\ UNCHANGED <<conn, received>>

\* only ConnectionClosed is handled: any other exception leaves broadcast_data
WS_broadcast_data_sendUncaught(client, outcome) ==
    /\ pub.pc = "sending"
    /\ client \in pub.copy \ pub.visited
    /\ outcome \in Outcomes(client)
    /\ pub' = IF outcome = "Exception"
              THEN [pub EXCEPT !.pc = "idle", !.raised = outcome]
              ELSE [pub EXCEPT !.visited = @ \cup {client},
                               !.disconnected = IF outcome = "ok" THEN @ ELSE @ \cup {client}]
    /\ received' = [received EXCEPT ![client] = IF outcome = "ok" THEN @ \cup {pub.id} ELSE @]
    /\ UNCHANGED <<ws, conn>>

\* one pass of the for loop of broadcast_data: the send to one client of the copy
WS_broadcast_data_send(client, outcome) ==
    /\ pub.pc = "sending"
    /\ client \in pub.copy \ pub.visited
    /\ outcome \in Outcomes(client)
    /\ pub' = [pub EXCEPT !.visited = @ \cup {client},
                          !.disconnected = IF outcome = "ok" THEN @ ELSE @ \cup {client}]
    /\ received' = [received EXCEPT ![client] = IF outcome = "ok" THEN @ \cup {pub.id} ELSE @]
    /\ UNCHANGED <<ws, conn>>

\* after the for loop: the clients whose send failed leave the set
\* (WS_broadcast_data_returnFromCopy: the variant that assigns the copy
\*  without the failed clients)
WS_broadcast_data_returnFromCopy ==
    /\ pub.pc = "sending"
    /\ pub.visited = pub.copy
    /\ ws' = [ws EXCEPT !.websocket_clients = pub.copy \ pub.disconnected]
    /\ pub' = [pub EXCEPT !.pc = "idle", !.copy = {}, !.visited = {}]
    /\ UNCHANGED <<conn, received>>
WS_broadcast_data_return ==
    /\ pub.pc = "sending"
    /\ pub.visited = pub.copy
    /\ ws' = [ws EXCEPT !.websocket_clients = @ \ pub.disconnected]
    /\ pub' = [pub EXCEPT !.pc = "idle", !.copy = {}, !.visited = {}]
    /\ UNCHANGED <<conn, received>>

(***************************************************************************)
(* Lifecycle of YoloWebStreamer: the streaming flag, the capture and the   *)
(* generate_frames loop that a /video_feed request runs in a Flask thread. *)
(* life.pc is "none" while no generate_frames call is active, "while" at   *)
(* the loop test and "body" once the test has passed; life.frames is the   *)
(* length of the video file, life.pos the position of the capture and      *)
(* life.frame_number the "frame_number" of the snapshot built last by the  *)
(* running call (0 before its first snapshot).                             *)
(***************************************************************************)
life_init ==
    [streaming |-> FALSE, cap |-> "None", pc |-> "none",
     frames |-> 0, pos |-> 0, frame_count |-> 0, frame_number |-> 0,
     viewer |-> "reading"]

WS_start_streaming ==
    /\ life' = [life EXCEPT !.streaming = TRUE]
    /\ UNCHANGED <<program, now, ws, vd, td, wy>>

WS_stop_streaming ==
    /\ life' = [life EXCEPT !.streaming = FALSE]
    /\ UNCHANGED <<program, now, ws, vd, td, wy>>

\* generate_frames up to its loop: nothing without the flag; the capture is
\* opened on a file of that many frames, and the call returns if that failed
WS_generate_frames_open(opened, frames) ==
    /\ life.pc = "none"
    /\ life' = IF ~life.streaming THEN life
               ELSE IF ~opened THEN [life EXCEPT !.cap = "failed"]
               ELSE [life EXCEPT !.cap = "open", !.pc = "while", !.frames = frames,
                                 !.pos = 0, !.frame_count = 0, !.frame_number = 0]
    /\ UNCHANGED <<program, now, ws, vd, td, wy>>

\* the loop runs whatever the flag says
WS_generate_frames_whileTrue ==
    /\ life.pc = "while"
    /\ life' = [life EXCEPT !.pc = "body"]
    /\ UNCHANGED <<program, now, ws, vd, td, wy>>

\* the loop test: without the flag the capture is released and the call returns
WS_generate_frames_while ==
    /\ life.pc = "while"
    /\ life' = IF life.streaming THEN [life EXCEPT !.pc = "body"]
               ELSE [life EXCEPT !.pc = "none", !.cap = "released"]
    /\ UNCHANGED <<program, now, ws, vd, td, wy>>

\* at the end of the video the call returns
WS_generate_frames_readStopAtEnd(vehicle_count, dt) ==
    /\ life.pc = "body"
    /\ IF life.pos = life.frames
       THEN /\ life' = [life EXCEPT !.pc = "none", !.cap = "released"]
            /\ UNCHANGED <<program, now, ws, vd, td, wy>>
       ELSE /\ life.viewer = "reading"
            /\ life' = [life EXCEPT !.pos = @ + 1, !.frame_count = @ + 1, !.pc = "while",
                                 !.frame_number = IF ws.websocket_clients # {}
                                                  THEN life.frame_count + 1 ELSE @]
            /\ WS_generate_frames(vehicle_count, dt)

\* the HTTP client of /video_feed stops taking data (the generator then stays
\* suspended in its yield until the server asks for the next part), or takes
\* data again
WS_viewer_stalls ==
    /\ life.viewer = "reading"
    /\ life' = [life EXCEPT !.viewer = "stalled"]
    /\ UNCHANGED <<program, now, ws, vd, td, wy>>

WS_viewer_reads ==
    /\ life.viewer = "stalled"
    /\ life' = [life EXCEPT !.viewer = "reading"]
    /\ UNCHANGED <<program, now, ws, vd, td, wy>>

\* the loop body: at the end of the video the capture is set back to frame 0
\* and the loop continues; otherwise the frame is counted and processed, the
\* pass going through the yield of the frame, which the HTTP client must take
WS_generate_frames_read(vehicle_count, dt) ==
    /\ life.pc = "body"
    /\ IF life.pos = life.frames
       THEN /\ life' = [life EXCEPT !.pos = 0, !.frame_count = 0, !.pc = "while"]
            /\ UNCHANGED <<program, now, ws, vd, td, wy>>
       ELSE /\ life.viewer = "reading"
            /\ life' = [life EXCEPT !.pos = @ + 1, !.frame_count = @ + 1, !.pc = "while",
                                 !.frame_number = IF ws.websocket_clients # {}
                                                  THEN life.frame_count + 1 ELSE @]
            /\ WS_generate_frames(vehicle_count, dt)

(***************************************************************************)
(* YoloVideoDisplay (yolo_video_display.py)                                *)
(***************************************************************************)
VD_congestion_level(avg_vehicles) ==
    IF Below(avg_vehicles, 5) THEN "low"
    ELSE IF Below(avg_vehicles, 15) THEN "medium"
    ELSE "high"

VD_signal_logic(current_signal, elapsed, congestion_level) ==
    IF current_signal = "green" THEN
        IF elapsed >= signal_timings.green[congestion_level]
        THEN [current_signal |-> "yellow", reset |-> TRUE]
        ELSE [current_signal |-> current_signal, reset |-> FALSE]
    ELSE IF current_signal = "yellow" THEN
        IF elapsed >= signal_timings.yellow
        THEN [current_signal |-> "red", reset |-> TRUE]
        ELSE [current_signal |-> current_signal, reset |-> FALSE]
    ELSE IF current_signal = "red" THEN
        IF elapsed >= signal_timings.red[congestion_level]
        THEN [current_signal |-> "green", reset |-> TRUE]
        ELSE [current_signal |-> current_signal, reset |-> FALSE]
    ELSE [current_signal |-> current_signal, reset |-> FALSE]

\* update_traffic_signal(vehicle_count), called once per displayed frame
VD_update_traffic_signal(vehicle_count, dt) ==
    LET current_time == now + dt
        elapsed == current_time - vd.last_signal_time
        vehicle_history == Keep30(vd.vehicle_history, vehicle_count)
        avg_vehicles == Average(vehicle_history)
        congestion_level == VD_congestion_level(avg_vehicles)
        logic == VD_signal_logic(vd.current_signal, elapsed, congestion_level)
    IN  /\ now' = current_time
        /\ vd' = [vd EXCEPT
                    !.vehicle_history = vehicle_history,
                    !.current_signal = logic.current_signal,
                    !.last_signal_time = IF logic.reset THEN current_time ELSE @,
                    !.signal_timer = IF logic.reset THEN 0 ELSE elapsed,
                    !.congestion_level = congestion_level]
        /\ UNCHANGED <<program, ws, td, wy>>

VD_init ==
    [current_signal |-> "green", signal_timer |-> 0, last_signal_time |-> 0,
     vehicle_history |-> <<>>, congestion_level |-> "none"]


(***************************************************************************)
(* TrafficDetector (yolo_traffic_detector.py)                              *)
(***************************************************************************)
calculate_congestion_level(vehicle_count) ==
    IF vehicle_count < 5 THEN "low"
    ELSE IF vehicle_count < 15 THEN "medium"
    ELSE "high"

\* update_traffic_signal(congestion_level): the signal and its timer after
\* the call
\* (TD_update_traffic_signalInclusive: the variant that compares with >=;
\*  TD_update_traffic_signalKeepTimer: the variant that does not reset
\*  signal_timer when it changes the signal;
\*  TD_update_traffic_signalRedStays: the variant whose Red never turns Green)
TD_update_traffic_signalInclusive(current_signal, signal_timer, congestion_level) ==
    IF current_signal = "green" THEN
        IF signal_timer >= signal_timings.green[congestion_level]
        THEN [current_signal |-> "yellow", signal_timer |-> 0]
        ELSE [current_signal |-> current_signal, signal_timer |-> signal_timer]
    ELSE IF current_signal = "yellow" THEN
        IF signal_timer >= signal_timings.yellow
        THEN [current_signal |-> "red", signal_timer |-> 0]
        ELSE [current_signal |-> current_signal, signal_timer |-> signal_timer]
    ELSE
        IF signal_timer >= signal_timings.red[congestion_level]
        THEN [current_signal |-> "green", signal_timer |-> 0]
        ELSE [current_signal |-> current_signal, signal_timer |-> signal_timer]
TD_update_traffic_signalKeepTimer(current_signal, signal_timer, congestion_level) ==
    IF current_signal = "green" THEN
        IF signal_timer > signal_timings.green[congestion_level]
        THEN [current_signal |-> "yellow", signal_timer |-> signal_timer]
        ELSE [current_signal |-> current_signal, signal_timer |-> signal_timer]
    ELSE IF current_signal = "yellow" THEN
        IF signal_timer > signal_timings.yellow
        THEN [current_signal |-> "red", signal_timer |-> signal_timer]
        ELSE [current_signal |-> current_signal, signal_timer |-> signal_timer]
    ELSE
        IF signal_timer > signal_timings.red[congestion_level]
        THEN [current_signal |-> "green", signal_timer |-> signal_timer]
        ELSE [current_signal |-> current_signal, signal_timer |-> signal_timer]
TD_update_traffic_signalRedStays(current_signal, signal_timer, congestion_level) ==
    IF current_signal = "green" THEN
        IF signal_timer > signal_timings.green[congestion_level]
        THEN [current_signal |-> "yellow", signal_timer |-> 0]
        ELSE [current_signal |-> current_signal, signal_timer |-> signal_timer]
    ELSE IF current_signal = "yellow" THEN
        IF signal_timer > signal_timings.yellow
        THEN [current_signal |-> "red", signal_timer |-> 0]
        ELSE [current_signal |-> current_signal, signal_timer |-> signal_timer]
    ELSE
        IF signal_timer > signal_timings.red[congestion_level]
        THEN [current_signal |-> "red", signal_timer |-> 0]
        ELSE [current_signal |-> current_signal, signal_timer |-> signal_timer]
TD_update_traffic_signal(current_signal, signal_timer, congestion_level) ==
    IF current_signal = "green" THEN
        IF signal_timer > signal_timings.green[congestion_level]
        THEN [current_signal |-> "yellow", signal_timer |-> 0]
        ELSE [current_signal |-> current_signal, signal_timer |-> signal_timer]
    ELSE IF current_signal = "yellow" THEN
        IF signal_timer > signal_timings.yellow
        THEN [current_signal |-> "red", signal_timer |-> 0]
        ELSE [current_signal |-> current_signal, signal_timer |-> signal_timer]
    ELSE IF current_signal = "red" THEN
        IF signal_timer > signal_timings.red[congestion_level]
        THEN [current_signal |-> "green", signal_timer |-> 0]
        ELSE [current_signal |-> current_signal, signal_timer |-> signal_timer]
    ELSE [current_signal |-> current_signal, signal_timer |-> signal_timer]

\* one pass of the while loop of process_video over a frame that was read;
\* delta is current_time - last_time
TD_cycle(self, vehicle_count, delta) ==
    LET vehicle_counts == DequeAppend(self.vehicle_counts, vehicle_count, 30)
        congestion_level == calculate_congestion_level(vehicle_count)
        congestion_history == DequeAppend(self.congestion_history, congestion_level, 10)
        signal == TD_update_traffic_signal(self.current_signal,
                                           self.signal_timer + delta,
                                           congestion_level)
        data == [vehicle_count |-> vehicle_count,
                 avg_vehicle_count |-> Average(vehicle_counts),
                 congestion_level |-> congestion_level,
                 traffic_signal |-> signal.current_signal,
                 signal_timer |-> signal.signal_timer]
    IN  [self EXCEPT
            !.vehicle_counts = vehicle_counts,
            !.congestion_history = congestion_history,
            !.current_signal = signal.current_signal,
            !.signal_timer = signal.signal_timer,
            !.data = <<data>>]

TD_process_video(vehicle_count, delta) ==
    /\ td' = TD_cycle(td, vehicle_count, delta)
    /\ UNCHANGED <<program, now, ws, vd, wy>>

TD_init ==
    [vehicle_counts |-> <<>>, congestion_history |-> <<>>,
     current_signal |-> "green", signal_timer |-> 0, data |-> <<>>,
     websocket_clients |-> {},
     pc |-> "start", frame_delay |-> 0, last_time |-> 0, current_time |-> 0,
     elapsed |-> 0, slept |-> 0]

(***************************************************************************)
(* Subscribers of TrafficDetector.  process_video, broadcast_data and the  *)
(* handlers are coroutines of one event loop: a handler runs only while    *)
(* process_video is suspended, in asyncio.sleep (pub.pc = "idle") or in    *)
(* the send to the client pub.cur (pub.pc = "sending").  conn[w] is        *)
(* "stalled" when the peer of w has stopped reading and its send cannot    *)
(* complete.  pub.pc = "raised" when an exception has left process_video.  *)
(***************************************************************************)
TD_websocket_handler_add(websocket) ==
    /\ pub.pc \in {"idle", "sending"}
    /\ conn[websocket] = "new"
    /\ td' = [td EXCEPT !.websocket_clients = @ \cup {websocket}]
    /\ conn' = [conn EXCEPT ![websocket] = "open"]
    /\ UNCHANGED <<pub, received>>

TD_websocket_handler_finally(websocket) ==
    LET removed == discard(td.websocket_clients, websocket)
    IN  /\ pub.pc \in {"idle", "sending"}
        /\ conn[websocket] = "open"
        /\ td' = [td EXCEPT !.websocket_clients = removed.set]
        /\ conn' = [conn EXCEPT ![websocket] = IF removed.raised THEN "KeyError" ELSE "closed"]
        /\ UNCHANGED <<pub, received>>

\* the peer of an open connection stops reading
TD_peer_stalls(websocket) ==
    /\ pub.pc \in {"idle", "sending"}
    /\ conn[websocket] = "open"
    /\ conn' = [conn EXCEPT ![websocket] = "stalled"]
    /\ UNCHANGED <<td, pub, received>>

\* next() of the iterator of the live set: RuntimeError when the size of the
\* set differs from the size at the creation of the iterator; otherwise an
\* element not visited yet, in no particular order.  After a change that
\* kept the size, the iterator goes on from its position in a hash table
\* whose slots may have been assigned anew: which elements are still
\* reached, an element already visited among them, depends on their slots.
TD_iter_next(p, websocket_clients) ==
    IF Cardinality(websocket_clients) # p.used THEN {"RuntimeError"}
    ELSE IF websocket_clients = p.copy
    THEN LET remaining == websocket_clients \ p.visited
         IN  IF remaining = {} THEN {"StopIteration"} ELSE remaining
    ELSE websocket_clients \cup {"StopIteration"}

\* process_video over one frame, and the entry of broadcast_data: with a
\* client connected the for loop starts and awaits the send to its first client
TD_publish(vehicle_count, delta) ==
    /\ pub.pc = "idle"
    /\ TD_process_video(vehicle_count, delta)
    /\ IF td.websocket_clients # {}
       THEN \E first \in td.websocket_clients :
               pub' = [pub EXCEPT !.pc = "sending", !.id = @ + 1,
                                  !.copy = td.websocket_clients,
                                  !.used = Cardinality(td.websocket_clients),
                                  !.visited = {}, !.disconnected = {},
                                  !.cur = first]
       ELSE pub' = pub
    /\ UNCHANGED <<conn, received>>

\* the awaited send to pub.cur ends, then the for loop goes on: only
\* ConnectionClosed is handled, the iterator is advanced over the live set,
\* and after the last client the disconnected ones are subtracted
TD_broadcast_data_send(outcome) ==
    LET client == pub.cur
        p == [pub EXCEPT !.visited = @ \cup {client},
                         !.disconnected = IF outcome = "ConnectionClosed"
                                          THEN @ \cup {client} ELSE @]
    IN  /\ pub.pc = "sending"
        /\ conn[client] # "stalled"
        /\ outcome \in Outcomes(client)
        /\ received' = [received EXCEPT ![client] =
                            IF outcome = "ok" THEN @ \cup {pub.id} ELSE @]
        /\ IF outcome = "Exception"
           THEN /\ pub' = [p EXCEPT !.pc = "raised", !.raised = outcome]
                /\ td' = td
           ELSE \E nxt \in TD_iter_next(p, td.websocket_clients) :
                   IF nxt = "RuntimeError"
                   THEN /\ pub' = [p EXCEPT !.pc = "raised", !.raised = nxt]
                        /\ td' = td
                   ELSE IF nxt = "StopIteration"
                   THEN /\ pub' = [p EXCEPT !.pc = "idle", !.cur = "none"]
                        /\ td' = [td EXCEPT !.websocket_clients = @ \ p.disconnected]
                   ELSE /\ pub' = [p EXCEPT !.cur = nxt]
                        /\ td' = td
        /\ UNCHANGED conn

(***************************************************************************)
(* WorkingYoloDetector (working_yolo.py); the signal logic of              *)
(* WorkingTrafficDetector.process_video_thread (simple_yolo.py) is the     *)
(* same code                                                               *)
(***************************************************************************)
WY_signal_timings == [low |-> 30, medium |-> 20, high |-> 15]

WY_signal_logic(current_signal, signal_timer, congestion_level) ==
    IF current_signal = "green" /\ signal_timer > WY_signal_timings[congestion_level]
    THEN [current_signal |-> "yellow", signal_timer |-> 0]
    ELSE IF current_signal = "yellow" /\ signal_timer > 3
    THEN [current_signal |-> "red", signal_timer |-> 0]
    ELSE IF current_signal = "red" /\ signal_timer > WY_signal_timings[congestion_level]
    THEN [current_signal |-> "green", signal_timer |-> 0]
    ELSE [current_signal |-> current_signal, signal_timer |-> signal_timer]

\* one pass of the while loop of process_video over a frame that was read;
\* detected is FALSE when the model call raises, delta is
\* current_time - last_time
WY_process_video(detected, count, delta) ==
    LET vehicle_count == IF detected THEN count ELSE 0
        vehicle_counts == Keep30(wy.vehicle_counts, vehicle_count)
        congestion_level == calculate_congestion_level(vehicle_count)
        signal == WY_signal_logic(wy.current_signal, wy.signal_timer + delta,
                                  congestion_level)
        data == [vehicle_count |-> vehicle_count,
                 avg_vehicle_count |-> Average(vehicle_counts),
                 congestion_level |-> congestion_level,
                 traffic_signal |-> signal.current_signal,
                 signal_timer |-> signal.signal_timer,
                 frame_count |-> wy.frame_count + 1]
    IN  /\ wy' = [wy EXCEPT
                    !.frame_count = @ + 1,
                    !.vehicle_counts = vehicle_counts,
                    !.current_signal = signal.current_signal,
                    !.signal_timer = signal.signal_timer,
                    !.data = <<data>>]
        /\ UNCHANGED <<program, now, ws, vd, td>>

WY_init ==
    [current_signal |-> "green", signal_timer |-> 0, frame_count |-> 0,
     vehicle_counts |-> <<>>, data |-> <<>>]

(***************************************************************************)
(* WorkingTrafficDetector (simple_yolo.py): process_video_thread is a      *)
(* thread that puts every snapshot in data_queue; broadcast_loop and the   *)
(* handlers are coroutines of one event loop.  pub.pc is "idle" while      *)
(* broadcast_loop sleeps on an empty queue, "run" while it executes and    *)
(* "sending" while it is suspended in the send to pub.cur; a handler runs  *)
(* only while broadcast_loop is suspended.                                 *)
(***************************************************************************)
\* one pass of the while loop of process_video_thread over a frame that was read
WT_process_video_thread(vehicle_count, delta) ==
    LET frame_count == wt.frame_count + 1
        congestion_level == calculate_congestion_level(vehicle_count)
        next == WY_signal_logic(wt.current_signal, wt.signal_timer + delta, congestion_level)
        data == [vehicle_count |-> vehicle_count,
                 avg_vehicle_count |-> [num |-> vehicle_count * 9, den |-> 10],
                 congestion_level |-> congestion_level,
                 traffic_signal |-> next.current_signal,
                 signal_timer |-> next.signal_timer,
                 frame_count |-> frame_count]
    IN  /\ wt.running
        /\ wt' = [wt EXCEPT !.frame_count = frame_count,
                            !.current_signal = next.current_signal,
                            !.signal_timer = next.signal_timer,
                            !.data_queue = Append(@, data)]
        /\ UNCHANGED <<conn, pub, received>>

WT_websocket_handler_add(websocket) ==
    /\ pub.pc \in {"idle", "sending"}
    /\ conn[websocket] = "new"
    /\ wt' = [wt EXCEPT !.websocket_clients = @ \cup {websocket}]
    /\ conn' = [conn EXCEPT ![websocket] = "open"]
    /\ UNCHANGED <<pub, received>>

WT_websocket_handler_finally(websocket) ==
    LET removed == discard(wt.websocket_clients, websocket)
    IN  /\ pub.pc \in {"idle", "sending"}
        /\ conn[websocket] = "open"
        /\ wt' = [wt EXCEPT !.websocket_clients = removed.set]
        /\ conn' = [conn EXCEPT ![websocket] = IF removed.raised THEN "KeyError" ELSE "closed"]
        /\ UNCHANGED <<pub, received>>

\* broadcast_loop at data_queue.get_nowait(): on queue.Empty it sleeps; a
\* snapshot is dropped when no client is connected, otherwise the for loop
\* over the live set starts and awaits the send to its first client
WT_broadcast_loop_get ==
    /\ wt.running
    /\ pub.pc \in {"idle", "run"}
    /\ IF wt.data_queue = <<>>
       THEN /\ pub.pc = "run"
            /\ pub' = [pub EXCEPT !.pc = "idle"]
            /\ wt' = wt
       ELSE /\ wt' = [wt EXCEPT !.data_queue = Tail(@)]
            /\ IF wt.websocket_clients # {}
               THEN \E first \in wt.websocket_clients :
                       pub' = [pub EXCEPT !.pc = "sending",
                                          !.id = Head(wt.data_queue).frame_count,
                                          !.copy = wt.websocket_clients,
                                          !.used = Cardinality(wt.websocket_clients),
                                          !.visited = {}, !.disconnected = {},
                                          !.cur = first]
               ELSE pub' = [pub EXCEPT !.pc = "run"]
    /\ UNCHANGED <<conn, received>>

\* the awaited send to pub.cur ends: every exception of the send marks the
\* client; a RuntimeError of the iterator is caught by the outer handler,
\* which skips the subtraction and sleeps
WT_broadcast_loop_send(outcome) ==
    LET client == pub.cur
        p == [pub EXCEPT !.visited = @ \cup {client},
                         !.disconnected = IF outcome = "ok" THEN @ ELSE @ \cup {client}]
    IN  /\ pub.pc = "sending"
        /\ outcome \in Outcomes(client)
        /\ received' = [received EXCEPT ![client] =
                            IF outcome = "ok" THEN @ \cup {pub.id} ELSE @]
        /\ \E nxt \in TD_iter_next(p, wt.websocket_clients) :
              IF nxt = "RuntimeError"
              THEN /\ pub' = [p EXCEPT !.pc = "idle", !.cur = "none"]
                   /\ wt' = wt
              ELSE IF nxt = "StopIteration"
              THEN /\ pub' = [p EXCEPT !.pc = "run", !.cur = "none"]
                   /\ wt' = [wt EXCEPT !.websocket_clients = @ \ p.disconnected]
              ELSE /\ pub' = [p EXCEPT !.cur = nxt]
                   /\ wt' = wt
        /\ UNCHANGED conn

\* the instance once start_server has set running
WT_init ==
    [running |-> TRUE, websocket_clients |-> {}, data_queue |-> <<>>,
     current_signal |-> "green", signal_timer |-> 0, frame_count |-> 0]

(***************************************************************************)
(* Two /video_feed requests on one YoloWebStreamer.  run_flask_app starts  *)
(* Flask with threaded=True, so every request runs its own generate_frames *)
(* in its own thread; the threads share the instance and may be switched   *)
(* between any two statements of update_traffic_signal.  loops[t] holds    *)
(* the position of thread t and the locals of its update_traffic_signal.   *)
(***************************************************************************)
Threads == {1, 2}

loops_init ==
    [t \in Threads |->
        [pc |-> "none", vehicle_count |-> 0, current_time |-> 0, elapsed |-> 0,
         congestion_level |-> "none"]]

\* GET /video_feed: generate_frames starts in the thread of the request and
\* reaches its while loop
WS_video_feed(t) ==
    /\ loops[t].pc = "none"
    /\ life.streaming
    /\ loops' = [loops EXCEPT ![t].pc = "loop"]
    /\ UNCHANGED <<program, now, ws, vd, td, wy>>

\* a frame is read and detected, update_traffic_signal is called and runs
\* current_time = time.time(); elapsed = ...; self.signal_timer = elapsed
WS_update_traffic_signal_time(t, vehicle_count, dt) ==
    /\ loops[t].pc = "loop"
    /\ life.streaming
    /\ now' = now + dt
    /\ loops' = [loops EXCEPT ![t].pc = "append",
                              ![t].vehicle_count = vehicle_count,
                              ![t].current_time = now',
                              ![t].elapsed = now' - ws.last_signal_time]
    /\ ws' = [ws EXCEPT !.signal_timer = now' - ws.last_signal_time]
    /\ UNCHANGED <<program, vd, td, wy>>

\* self.vehicle_history.append(vehicle_count)
WS_update_traffic_signal_append(t) ==
    /\ loops[t].pc = "append"
    /\ ws' = [ws EXCEPT !.vehicle_history = Append(@, loops[t].vehicle_count)]
    /\ loops' = [loops EXCEPT ![t].pc = "pop"]
    /\ UNCHANGED <<program, now, vd, td, wy>>

\* if len(self.vehicle_history) > 30: self.vehicle_history.pop(0)
WS_update_traffic_signal_pop(t) ==
    /\ loops[t].pc = "pop"
    /\ ws' = [ws EXCEPT !.vehicle_history = IF Len(@) > 30 THEN Tail(@) ELSE @]
    /\ loops' = [loops EXCEPT ![t].pc = "average"]
    /\ UNCHANGED <<program, now, vd, td, wy>>

\* avg_vehicles = sum / len, and the congestion level of it
WS_update_traffic_signal_average(t) ==
    /\ loops[t].pc = "average"
    /\ LET avg_vehicles == Average(ws.vehicle_history)
           congestion_level == WS_congestion_level(avg_vehicles)
       IN  /\ ws' = [ws EXCEPT !.avg_vehicles = avg_vehicles,
                               !.congestion_level = congestion_level]
           /\ loops' = [loops EXCEPT ![t].pc = "logic",
                                     ![t].congestion_level = congestion_level]
    /\ UNCHANGED <<program, now, vd, td, wy>>

\* "Traffic signal logic" on self.current_signal as it is now, with the
\* elapsed and current_time the thread computed on entry; then the rest of
\* the pass of the loop
WS_update_traffic_signal_logic(t) ==
    /\ loops[t].pc = "logic"
    /\ LET logic == WS_signal_logic(ws.current_signal, loops[t].elapsed,
                                    loops[t].congestion_level)
       IN  ws' = [ws EXCEPT
                    !.current_signal = logic.current_signal,
                    !.last_signal_time = IF logic.reset THEN loops[t].current_time ELSE @,
                    !.signal_timer = IF logic.reset THEN 0 ELSE @]
    /\ loops' = [loops EXCEPT ![t].pc = "loop"]
    /\ UNCHANGED <<program, now, vd, td, wy>>

(***************************************************************************)
(* parse_traffic.py.  Coordinates are whole numbers of 10^-6 degrees, and  *)
(* round(x, 5) rounds them to the nearest multiple of 10.  The dictionaries *)
(* graph and point_to_roads are functions on the rounded points, a point   *)
(* that is not a key being mapped to the empty list.                       *)
(***************************************************************************)
MaxPoints == 3       \* coordinates of a road

Coords == {<<0, 0>>, <<4, 0>>, <<12, 9>>}
RoadIds == {"r1", "r2"}
RoadCounts == {0, 1, 2}

Geometries == UNION {[1..n -> Coords] : n \in 0..MaxPoints}

\* the roads that extract_road_segments can return for one feature
Roads ==
    {[id |-> id, geometry |-> g, avg_speed_kmph |-> 30, congestion |-> "low",
      vehicle_count |-> 0, travel_time_sec |-> 0] : id \in RoadIds, g \in Geometries}

\* round(x, 5) of a non-negative coordinate
round5(x) == ((x + 5) \div 10) * 10

round_point(coord) == <<round5(coord[1]), round5(coord[2])>>

Points == {round_point(c) : c \in Coords}

\* math.hypot(dx, dy), to whole units
calculate_distance(p1, p2) ==
    LET dx == p1[1] - p2[1]
        dy == p1[2] - p2[2]
        n == dx * dx + dy * dy
    IN  CHOOSE r \in 0..n : r * r <= n /\ n < (r + 1) * (r + 1)

pt_init ==
    [pc |-> "load", roads |-> <<>>, road |-> 0,
     point_to_roads |-> [p \in Points |-> <<>>],
     all_edges |-> <<>>,
     graph |-> [p \in Points |-> <<>>],
     intersections |-> <<>>]

\* load_geojson and extract_road_segments
PT_extract_road_segments(roads) ==
    /\ pt.pc = "load"
    /\ pt' = [pt EXCEPT !.pc = "build", !.roads = roads]

\* "Add to point_to_roads for intersection detection", from index i on
RECURSIVE add_points(_, _, _, _)
add_points(point_to_roads, road, rounded_coords, i) ==
    IF i > Len(rounded_coords) THEN point_to_roads
    ELSE add_points([point_to_roads EXCEPT ![rounded_coords[i]] =
                        Append(@, [road_id |-> road.id, index |-> i - 1,
                                   properties |-> road])],
                    road, rounded_coords, i + 1)

\* graph[p1].append(...); graph[p2].append(...)
\* (add_edgeOneWay: the variant that appends to graph[p1] only)
add_edgeOneWay(graph, p1, p2, edge_data) ==
    [graph EXCEPT ![p1] = Append(@, [node |-> p2, data |-> edge_data])]
add_edge(graph, p1, p2, edge_data) ==
    LET g1 == [graph EXCEPT ![p1] = Append(@, [node |-> p2, data |-> edge_data])]
    IN  [g1 EXCEPT ![p2] = Append(@, [node |-> p1, data |-> edge_data])]

\* "Create edges", from index i on; built is the pair of all_edges and graph
RECURSIVE add_edges(_, _, _, _)
add_edges(built, road, rounded_coords, i) ==
    IF i > Len(rounded_coords) - 1 THEN built
    ELSE LET p1 == rounded_coords[i]
             p2 == rounded_coords[i + 1]
             edge_data == [road_id |-> road.id,
                           avg_speed_kmph |-> road.avg_speed_kmph,
                           congestion |-> road.congestion,
                           vehicle_count |-> road.vehicle_count,
                           travel_time_sec |-> road.travel_time_sec,
                           length |-> calculate_distance(road.geometry[i],
                                                         road.geometry[i + 1])]
         IN  add_edges([all_edges |-> Append(built.all_edges,
                                             [start |-> p1, end |-> p2, data |-> edge_data]),
                        graph |-> add_edge(built.graph, p1, p2, edge_data)],
                       road, rounded_coords, i + 1)

\* one pass of "for road in roads" of build_graph; after the last road the
\* function returns
PT_build_graph ==
    /\ pt.pc = "build"
    /\ IF pt.road = Len(pt.roads)
       THEN pt' = [pt EXCEPT !.pc = "detect"]
       ELSE LET road == pt.roads[pt.road + 1]
                rounded_coords == [i \in 1..Len(road.geometry) |->
                                      round_point(road.geometry[i])]
                built == add_edges([all_edges |-> pt.all_edges, graph |-> pt.graph],
                                   road, rounded_coords, 1)
            IN  pt' = [pt EXCEPT
                         !.road = @ + 1,
                         !.point_to_roads = add_points(@, road, rounded_coords, 1),
                         !.all_edges = built.all_edges,
                         !.graph = built.graph]

\* is_endpoint of detect_intersections
\* (is_endpointFirstOnly: the variant that only looks for index 0)
is_endpointFirstOnly(roads_at_point) ==
    \E k \in 1..Len(roads_at_point) : roads_at_point[k].index = 0
is_endpoint(roads_at_point) ==
    \E k \in 1..Len(roads_at_point) :
        \/ roads_at_point[k].index = 0
        \/ roads_at_point[k].index = Len(roads_at_point[k].properties.geometry) - 1

\* detect_intersections(point_to_roads): the dictionary it returns, as a
\* function on the points returned
detect_intersections(point_to_roads) ==
    LET unique_roads(p) ==
            {point_to_roads[p][k].road_id : k \in 1..Len(point_to_roads[p])}
        returned == {p \in Points :
                        /\ point_to_roads[p] # <<>>
                        /\ \/ Cardinality(unique_roads(p)) > 1
                           \/ is_endpoint(point_to_roads[p])}
    IN  [p \in returned |-> point_to_roads[p]]

PT_detect_intersections ==
    /\ pt.pc = "detect"
    /\ pt' = [pt EXCEPT !.pc = "done",
                        !.intersections = detect_intersections(pt.point_to_roads)]

(***************************************************************************)
(* Specifications                                                          *)
(***************************************************************************)
\* the detector may report any count for the first k frames; after that the
\* traffic is steady: it keeps reporting the count it reported last
Varied(window, count, k) ==
    IF Len(window) < k THEN TRUE ELSE count = window[Len(window)]

\* steady traffic: the detector keeps reporting the count it reported first
Steady(window, count) ==
    IF window = <<>> THEN TRUE ELSE count = window[Len(window)]

Init ==
    /\ program \in Programs
    /\ now = 0
    /\ ws \in {WS_init(c) : c \in IF program = "YoloWebStreamer" THEN SUBSET Clients ELSE {{}}}
    /\ vd = VD_init
    /\ td = TD_init
    /\ wy = WY_init
    /\ fed = <<>>
    /\ sim_time = 0
    /\ transitions = 0
    /\ conn = [w \in Websockets |-> IF w \in ws.websocket_clients THEN "open" ELSE "new"]
    /\ pub = pub_init
    /\ received = [w \in Websockets |-> {}]
    /\ reg = [w \in Websockets |-> 0]
    /\ wt = WT_init
    /\ life = life_init
    /\ stopped = FALSE
    /\ loops = loops_init
    /\ entered = 0
    /\ pt = pt_init

RunWS ==
    \E c \in Counts, dt \in Deltas :
        /\ program = "YoloWebStreamer"
        /\ now + dt <= MaxTime
        /\ Steady(ws.vehicle_history, c)
        /\ WS_generate_frames(c, dt)
        /\ UNCHANGED <<fed, sim_time, transitions, net, wt, life, stopped, loops, entered, pt>>

RunVD ==
    \E c \in Counts, dt \in Deltas :
        /\ program = "YoloVideoDisplay"
        /\ now + dt <= MaxTime
        /\ Steady(vd.vehicle_history, c)
        /\ VD_update_traffic_signal(c, dt)
        /\ UNCHANGED <<fed, sim_time, transitions, net, wt, life, stopped, loops, entered, pt>>

RunTD ==
    \E c \in Counts, dt \in LoopDeltas :
        /\ program = "TrafficDetector"
        /\ Varied(td.vehicle_counts, c, MaxVaried)
        /\ TD_process_video(c, dt)
        /\ UNCHANGED <<fed, sim_time, transitions, net, wt, life, stopped, loops, entered, pt>>

RunWY ==
    \E ok \in BOOLEAN, c \in Counts, dt \in LoopDeltas :
        /\ program = "WorkingYoloDetector"
        /\ wy.frame_count < MaxFrames
        /\ WY_process_video(ok, c, dt)
        /\ UNCHANGED <<fed, sim_time, transitions, net, wt, life, stopped, loops, entered, pt>>

\* the signal controllers of the four programs under all tick deltas
Next == RunWS \/ RunVD \/ RunTD \/ RunWY

Spec == Init /\ [][Next]_vars

\* the estimator of YoloWebStreamer over long runs of counts
InitEst == Init /\ program = "YoloWebStreamer"

NextEst ==
    \E c \in EstCounts, dt \in EstDeltas :
        /\ Len(fed) < MaxFed
        /\ now + dt <= MaxEstTime
        /\ Varied(fed, c, MaxEstVaried)
        /\ WS_generate_frames(c, dt)
        /\ fed' = Append(fed, c)
        /\ UNCHANGED <<sim_time, transitions, net, wt, life, stopped, loops, entered, pt>>

SpecEst == InitEst /\ [][NextEst]_vars

\* TrafficDetector under constant High congestion, with the simulated time
\* and the number of signal changes recorded
InitHigh == Init /\ program = "TrafficDetector"

NextHigh ==
    \E c \in HighCounts, dt \in HighDeltas :
        /\ sim_time + dt <= MaxSimTime
        /\ Varied(td.vehicle_counts, c, MaxVaried)
        /\ TD_process_video(c, dt)
        /\ sim_time' = sim_time + dt
        /\ transitions' = IF td'.current_signal # td.current_signal
                          THEN transitions + 1 ELSE transitions
        /\ UNCHANGED <<fed, net, wt, life, stopped, loops, entered, pt>>

SpecHigh == InitHigh /\ [][NextHigh]_vars


\* the subscribers of YoloWebStreamer: connections come and go while the
\* generate_frames loop publishes
MaxPublish == 2      \* publish calls of a subscriber run
MaxCycles == 3       \* passes of the producer loop of a subscriber run
HubCounts == {5}
HubDeltas == {1}

InitHub == Init /\ program = "YoloWebStreamer"

HubAdd ==
    \E w \in Websockets :
        /\ WS_websocket_handler_add(w)
        /\ reg' = [reg EXCEPT ![w] = pub.id]
        /\ UNCHANGED <<program, now, vd, td, wy, fed, sim_time, transitions, wt, life, stopped, loops, entered, pt>>

HubFinally ==
    \E w \in Websockets :
        /\ WS_websocket_handler_finally(w)
        /\ UNCHANGED <<program, now, vd, td, wy, fed, sim_time, transitions, reg, wt, life, stopped, loops, entered, pt>>

HubPublish ==
    \E c \in HubCounts, dt \in HubDeltas :
        /\ now < MaxCycles
        /\ pub.id < MaxPublish
        /\ WS_publish(c, dt)
        /\ UNCHANGED <<fed, sim_time, transitions, reg, wt, life, stopped, loops, entered, pt>>

HubSend ==
    \E w \in Websockets, o \in SendOutcomes :
        /\ WS_broadcast_data_send(w, o)
        /\ UNCHANGED <<program, now, vd, td, wy, fed, sim_time, transitions, reg, wt, life, stopped, loops, entered, pt>>

HubReturn ==
    /\ WS_broadcast_data_return
    /\ UNCHANGED <<program, now, vd, td, wy, fed, sim_time, transitions, reg, wt, life, stopped, loops, entered, pt>>

NextHub == HubAdd \/ HubFinally \/ HubPublish \/ HubSend \/ HubReturn

SpecHub == InitHub /\ [][NextHub]_vars


\* the subscribers of TrafficDetector
InitTDHub == Init /\ program = "TrafficDetector"

TDHubAdd ==
    \E w \in Websockets :
        /\ TD_websocket_handler_add(w)
        /\ reg' = [reg EXCEPT ![w] = pub.id]
        /\ UNCHANGED <<program, now, ws, vd, wy, fed, sim_time, transitions, wt, life, stopped, loops, entered, pt>>

TDHubFinally ==
    \E w \in Websockets :
        /\ TD_websocket_handler_finally(w)
        /\ UNCHANGED <<program, now, ws, vd, wy, fed, sim_time, transitions, reg, wt, life, stopped, loops, entered, pt>>

TDHubStall ==
    \E w \in Websockets :
        /\ TD_peer_stalls(w)
        /\ UNCHANGED <<program, now, ws, vd, wy, fed, sim_time, transitions, reg, wt, life, stopped, loops, entered, pt>>

TDHubPublish ==
    \E c \in HubCounts, dt \in HubDeltas :
        /\ Len(td.vehicle_counts) < MaxCycles
        /\ pub.id < MaxPublish
        /\ TD_publish(c, dt)
        /\ UNCHANGED <<fed, sim_time, transitions, reg, wt, life, stopped, loops, entered, pt>>

TDHubSend ==
    \E o \in SendOutcomes :
        /\ TD_broadcast_data_send(o)
        /\ UNCHANGED <<program, now, ws, vd, wy, fed, sim_time, transitions, reg, wt, life, stopped, loops, entered, pt>>

NextTDHub == TDHubAdd \/ TDHubFinally \/ TDHubStall \/ TDHubPublish \/ TDHubSend

SpecTDHub == InitTDHub /\ [][NextTDHub]_vars


\* WorkingTrafficDetector: the producer thread, the broadcast loop and the handlers
MaxQueueFrames == 2  \* frames processed by WorkingTrafficDetector
QueueSockets == {"c1", "c2", "c3"}

InitQueue == Init /\ program = "WorkingTrafficDetector"

QueueProduce ==
    \E c \in HubCounts, dt \in HubDeltas :
        /\ wt.frame_count < MaxQueueFrames
        /\ WT_process_video_thread(c, dt)
        /\ UNCHANGED <<program, now, ws, vd, td, wy, fed, sim_time, transitions, reg, life, stopped, loops, entered, pt>>

QueueAdd ==
    \E w \in QueueSockets :
        /\ WT_websocket_handler_add(w)
        /\ reg' = [reg EXCEPT ![w] = wt.frame_count]
        /\ UNCHANGED <<program, now, ws, vd, td, wy, fed, sim_time, transitions, life, stopped, loops, entered, pt>>

QueueFinally ==
    \E w \in QueueSockets :
        /\ WT_websocket_handler_finally(w)
        /\ UNCHANGED <<program, now, ws, vd, td, wy, fed, sim_time, transitions, reg, life, stopped, loops, entered, pt>>

QueueGet ==
    /\ WT_broadcast_loop_get
    /\ UNCHANGED <<program, now, ws, vd, td, wy, fed, sim_time, transitions, reg, life, stopped, loops, entered, pt>>

QueueSend ==
    \E o \in SendOutcomes :
        /\ WT_broadcast_loop_send(o)
        /\ UNCHANGED <<program, now, ws, vd, td, wy, fed, sim_time, transitions, reg, life, stopped, loops, entered, pt>>

NextQueue == QueueProduce \/ QueueAdd \/ QueueFinally \/ QueueGet \/ QueueSend

SpecQueue == InitQueue /\ [][NextQueue]_vars


\* the lifecycle of YoloWebStreamer: start and stop are called in any order
\* while requests for /video_feed arrive
LifeCounts == {5}
LifeDeltas == {0}

InitLife == Init /\ program = "YoloWebStreamer"

LifeStart ==
    /\ WS_start_streaming
    /\ UNCHANGED <<fed, sim_time, transitions, net, wt, stopped, loops, entered, pt>>

LifeStop ==
    /\ WS_stop_streaming
    /\ stopped' = TRUE
    /\ UNCHANGED <<fed, sim_time, transitions, net, wt, loops, entered, pt>>

LifeRequest ==
    \E opened \in BOOLEAN, frames \in 0..MaxVideoFrames :
        /\ WS_generate_frames_open(opened, frames)
        /\ UNCHANGED <<fed, sim_time, transitions, net, wt, stopped, loops, entered, pt>>

LifeWhile ==
    /\ WS_generate_frames_while
    /\ UNCHANGED <<fed, sim_time, transitions, net, wt, stopped, loops, entered, pt>>

LifeRead ==
    \E c \in LifeCounts, dt \in LifeDeltas :
        /\ WS_generate_frames_read(c, dt)
        /\ UNCHANGED <<fed, sim_time, transitions, net, wt, stopped, loops, entered, pt>>

LifeStall ==
    /\ WS_viewer_stalls
    /\ UNCHANGED <<fed, sim_time, transitions, net, wt, stopped, loops, entered, pt>>

LifeResume ==
    /\ WS_viewer_reads
    /\ UNCHANGED <<fed, sim_time, transitions, net, wt, stopped, loops, entered, pt>>

NextLife ==
    \/ LifeStart
    \/ LifeStop
    \/ LifeRequest
    \/ LifeWhile
    \/ LifeRead
    \/ LifeStall
    \/ LifeResume

SpecLife == InitLife /\ [][NextLife]_vars

\* the streamer while it is Running: stop_streaming is not called, and the
\* Flask thread that runs generate_frames is scheduled again and again
NextRunning == LifeStart \/ LifeRequest \/ LifeWhile \/ LifeRead

SpecRunning ==
    InitLife /\ [][NextRunning]_vars /\ WF_vars(LifeWhile) /\ WF_vars(LifeRead)


(***************************************************************************)
(* Properties                                                              *)
(***************************************************************************)
\* the dwell-time table of the specification
Dwell(signal, congestion) ==
    IF signal = "green" THEN
        (IF congestion = "low" THEN 30 ELSE IF congestion = "medium" THEN 20 ELSE 15)
    ELSE IF signal = "yellow" THEN 3
    ELSE (IF congestion = "low" THEN 15 ELSE IF congestion = "medium" THEN 25 ELSE 35)

Succ(signal) ==
    IF signal = "green" THEN "yellow" ELSE IF signal = "yellow" THEN "red" ELSE "green"

\* the fraction avg is the arithmetic mean of the counts xs
IsMeanOf(avg, xs) == xs # <<>> /\ avg.num * Len(xs) = Sum(xs) * avg.den

\* C1: after the n-th count fed to YoloWebStreamer.update_traffic_signal the
\* window is the last min(n, 30) counts in submission order, and both the
\* average used for the classification and the published avg_vehicle_count
\* are the arithmetic mean of exactly those counts.
C1_WindowAverage ==
    fed # <<>> =>
        LET lastN == LastK(fed, Min(Len(fed), 30))
        IN  /\ ws.vehicle_history = lastN
            /\ IsMeanOf(ws.avg_vehicles, lastN)
            /\ ws.data # <<>> => IsMeanOf(ws.data[1].avg_vehicle_count, lastN)

\* more than 30 counts were fed, the evicted ones differ from the kept ones,
\* and the snapshot was published
C1_Witness ==
    /\ Len(fed) > 30
    /\ fed[1] # fed[Len(fed)]
    /\ Sum(fed) # Sum(ws.vehicle_history)
    /\ ws.data # <<>>

\* C2: the congestion level returned by the estimator is Low exactly when
\* the window average is below 5, Medium exactly when it is at least 5 and
\* below 15, High exactly when it is at least 15.
C2_Thresholds ==
    fed # <<>> =>
        LET total == Sum(ws.vehicle_history)
            n == Len(ws.vehicle_history)
        IN  /\ (ws.congestion_level = "low") <=> (total < 5 * n)
            /\ (ws.congestion_level = "medium") <=> (5 * n <= total /\ total < 15 * n)
            /\ (ws.congestion_level = "high") <=> (15 * n <= total)

\* a window of mixed counts whose average is exactly 15 was classified High
C2_Witness ==
    /\ Len(ws.vehicle_history) > 1
    /\ ws.vehicle_history[1] # 15
    /\ Sum(ws.vehicle_history) = 15 * Len(ws.vehicle_history)
    /\ ws.congestion_level = "high"

\* C3: in TrafficDetector.process_video the congestion level fed to the
\* signal controller and published is the classification of the average of
\* the history window.
C3_AveragedLevel ==
    td.data # <<>> =>
        LET total == Sum(td.vehicle_counts)
            n == Len(td.vehicle_counts)
        IN  td.data[1].congestion_level =
                (IF total < 5 * n THEN "low"
                 ELSE IF total < 15 * n THEN "medium" ELSE "high")

\* C4: the signal state changes only along Green->Yellow, Yellow->Red and
\* Red->Green (TrafficDetector and YoloWebStreamer).
C4_CycleOrder ==
    [][/\ td'.current_signal \in {td.current_signal, Succ(td.current_signal)}
       /\ ws'.current_signal \in {ws.current_signal, Succ(ws.current_signal)}]_vars

\* the signal came back to Green after Yellow and Red
C4_Witness == ws.current_signal = "green" /\ ws.last_signal_time > 0

\* C5: a tick in state s with congestion c changes the signal if and only if
\* the accumulated elapsed time is strictly greater than the dwell of the
\* table, and the elapsed time is 0 right after every change (TrafficDetector
\* and YoloWebStreamer).
C5_DwellTable ==
    [][/\ \A c \in Counts, dt \in LoopDeltas :
            TD_process_video(c, dt) =>
                LET elapsed == td.signal_timer + dt
                    changed == td'.current_signal # td.current_signal
                IN  /\ changed <=>
                            elapsed > Dwell(td.current_signal, td'.data[1].congestion_level)
                    /\ td'.signal_timer = IF changed THEN 0 ELSE elapsed
       /\ ws' # ws =>
            LET elapsed == now' - ws.last_signal_time
                changed == ws'.current_signal # ws.current_signal
            IN  /\ changed <=> elapsed > Dwell(ws.current_signal, ws'.congestion_level)
                /\ ws'.signal_timer = IF changed THEN 0 ELSE elapsed]_vars

\* Green was held under Low until the elapsed time was exactly 30
C5_Witness ==
    \/ /\ td.current_signal = "green" /\ td.signal_timer = 30
    \/ /\ ws.current_signal = "green" /\ ws.signal_timer = 30

\* C6 as stated: a tick with delta_time = 0 never changes the signal state
\* or the elapsed time, whatever congestion level is passed.
C6_ZeroDeltaAnyLevel ==
    [][\A c \in Counts :
            TD_process_video(c, 0) =>
                /\ td'.current_signal = td.current_signal
                /\ td'.signal_timer = td.signal_timer]_vars

\* C6 amended: a tick with delta_time = 0 changes neither the signal state
\* nor the elapsed time when it is the first tick or passes the congestion
\* level of the previous tick.
C6_ZeroDeltaSameLevel ==
    [][\A c \in Counts :
            (/\ TD_process_video(c, 0)
             /\ (td.data = <<>> \/
                 td.data[1].congestion_level = calculate_congestion_level(c))) =>
                /\ td'.current_signal = td.current_signal
                /\ td'.signal_timer = td.signal_timer]_vars

\* the last two ticks passed the same level and left the signal Green with
\* an elapsed time that already exceeds the Green dwell of another level
C6_Witness ==
    /\ Len(td.vehicle_counts) >= 2
    /\ td.vehicle_counts[Len(td.vehicle_counts)] =
            td.vehicle_counts[Len(td.vehicle_counts) - 1]
    /\ td.current_signal = "green"
    /\ td.signal_timer > 15


\* C7 as stated: under constant High congestion the simulated time from the
\* start in Green until the tick at which the signal is back in Green is
\* exactly 15 + 3 + 35 = 53 seconds.
C7_CycleIs53 ==
    (transitions = 3 /\ td.signal_timer = 0) => sim_time = 53

\* C7 amended: under constant High congestion the simulated time from the
\* start in Green until the signal is back in Green is strictly more than
\* 53 seconds, each state being left at the first tick whose accumulated
\* elapsed time exceeds its dwell.
C7_CycleExceeds53 ==
    /\ transitions >= 1 => sim_time > 15
    /\ transitions >= 2 => sim_time > 15 + 3
    /\ transitions >= 3 => sim_time > 15 + 3 + 35

\* the signal is back in Green after Yellow and Red, on the tick of the change
C7_Witness ==
    /\ transitions = 3
    /\ td.current_signal = "green"
    /\ td.signal_timer = 0
    /\ sim_time = 56

\* C8: a single tick performs at most one state transition, however large
\* its delta: a tick whose elapsed time exceeds the sum of all dwell times
\* advances the signal by exactly one state (TrafficDetector and
\* YoloWebStreamer).
C8_OneTransitionPerTick ==
    [][/\ \A c \in Counts, dt \in LoopDeltas :
            TD_process_video(c, dt) =>
                /\ td'.current_signal \in {td.current_signal, Succ(td.current_signal)}
                /\ td.signal_timer + dt > 30 + 3 + 35 =>
                        /\ td'.current_signal = Succ(td.current_signal)
                        /\ td'.signal_timer = 0
       /\ ws' # ws =>
            /\ ws'.current_signal \in {ws.current_signal, Succ(ws.current_signal)}
            /\ now' - ws.last_signal_time > 30 + 3 + 35 =>
                    /\ ws'.current_signal = Succ(ws.current_signal)
                    /\ ws'.signal_timer = 0
                    /\ ws'.last_signal_time = now']_vars

\* a tick 70 seconds after the start left the signal in Yellow
C8_Witness ==
    /\ ws.current_signal = "yellow"
    /\ ws.last_signal_time >= 70
    /\ ws.signal_timer = 0

\* C9: in every variant a tick at which the elapsed time is exactly the
\* dwell time of the current state leaves the signal state unchanged.
C9_StrictEverywhere ==
    [][/\ ws' # ws =>
            (now' - ws.last_signal_time = Dwell(ws.current_signal, ws'.congestion_level)
                => ws'.current_signal = ws.current_signal)
       /\ vd' # vd =>
            (now' - vd.last_signal_time = Dwell(vd.current_signal, vd'.congestion_level)
                => vd'.current_signal = vd.current_signal)
       /\ \A c \in Counts, dt \in LoopDeltas :
            TD_process_video(c, dt) =>
                (td.signal_timer + dt = Dwell(td.current_signal, td'.data[1].congestion_level)
                    => td'.current_signal = td.current_signal)
       /\ \A ok \in BOOLEAN, c \in Counts, dt \in LoopDeltas :
            WY_process_video(ok, c, dt) =>
                (wy.signal_timer + dt = Dwell(wy.current_signal, wy'.data[1].congestion_level)
                    => wy'.current_signal = wy.current_signal)]_vars

\* C10: in the signal logic of WorkingYoloDetector.process_video Red is left
\* for Green only once the elapsed time exceeds 15/25/35 s (Low/Medium/High)
\* and Green is left only once it exceeds 30/20/15 s.
C10_WorkingDwell ==
    [][\A ok \in BOOLEAN, c \in Counts, dt \in LoopDeltas :
            (WY_process_video(ok, c, dt) /\ wy'.current_signal # wy.current_signal
                /\ wy.current_signal \in {"green", "red"}) =>
                wy.signal_timer + dt > Dwell(wy.current_signal, wy'.data[1].congestion_level)]_vars

\* C11: in YoloWebStreamer.broadcast_data a send that succeeds delivers the
\* snapshot and a send that fails only marks its client; the publish goes
\* over every member of the set, and when it returns every client of that
\* publish either has the snapshot or is absent from the set, while no
\* client whose send succeeded is removed, so that later publishes reach it.
C11_FailuresIsolated ==
    [][/\ \A w \in Websockets, o \in SendOutcomes :
            WS_broadcast_data_send(w, o) =>
                /\ pub'.pc = "sending"
                /\ (o = "ok") = (pub.id \in received'[w])
                /\ (o = "ok") = (w \notin pub'.disconnected)
       /\ (pub.pc = "idle" /\ pub'.pc = "sending") =>
            pub'.copy = ws'.websocket_clients
       /\ (pub.pc = "sending" /\ pub'.pc = "idle") =>
            /\ pub'.raised = "none"
            /\ \A w \in pub.copy :
                  IF w \in pub.disconnected
                  THEN w \notin ws'.websocket_clients
                  ELSE pub.id \in received'[w]
            /\ ws.websocket_clients \ pub.disconnected \subseteq ws'.websocket_clients
      ]_vars

\* one client was dropped by the first publish, another got both publishes
C11_Witness ==
    \E a, b \in Websockets :
        /\ pub.pc = "idle" /\ pub.id = 2
        /\ conn[a] = "open" /\ a \notin ws.websocket_clients /\ received[a] = {}
        /\ b \in ws.websocket_clients /\ received[b] = {1, 2}

\* C12: in TrafficDetector.broadcast_data a send that fails, whatever the
\* exception, does not end process_video with that exception: the failing
\* client is marked for removal and the loop over the clients goes on.
C12_AnyFailureAbsorbed ==
    [][\A o \in SendOutcomes \ {"ok"} :
          TD_broadcast_data_send(o) =>
              /\ pub'.raised # o
              /\ pub.cur \in pub'.disconnected
      ]_vars

\* C13: a client added or discarded by websocket_handler while
\* TrafficDetector.broadcast_data is suspended in a send never raises out of
\* the for loop, and the loop ends only after it has visited every client
\* that was in the set when it started.
C13_MembershipChangeHarmless ==
    [][/\ pub'.raised # "RuntimeError"
       /\ (pub.pc = "sending" /\ pub'.pc = "idle") => pub'.visited = pub.copy
      ]_vars

\* C14: a subscriber whose send cannot complete does not stall the producer:
\* whenever process_video is suspended in the send to a client whose peer
\* has stopped reading, the publish still has a step it can take (give the
\* client up and go on to the other clients and to the next cycle).
C14_SlowSubscriberNoStall ==
    (pub.pc = "sending" /\ conn[pub.cur] = "stalled") => ENABLED TDHubSend

C17_RemoveIdempotent ==
    [][/\ \A w \in Websockets : conn'[w] # "KeyError"
       /\ \A w \in Websockets :
            (WS_websocket_handler_finally(w) /\ w \notin ws.websocket_clients) =>
                ws'.websocket_clients = ws.websocket_clients
       /\ (WS_broadcast_data_return /\ pub.disconnected \cap ws.websocket_clients = {}) =>
                ws'.websocket_clients = ws.websocket_clients
      ]_vars

\* a websocket whose send failed in the last publish was removed by the
\* publish and by its handler
C17_Witness ==
    \E w \in Websockets :
        /\ pub.pc = "idle" /\ w \in pub.disconnected
        /\ conn[w] = "closed" /\ w \notin ws.websocket_clients

\* C16: in WorkingTrafficDetector every snapshot sent to a websocket was
\* produced by process_video_thread after the websocket was added: its
\* frame_count is above the frame_count at the time of the add.
C16_QueueNoBackfill ==
    \A w \in Websockets : \A i \in received[w] : i > reg[w]

\* C18: while YoloWebStreamer is streaming, the end of the video never ends
\* the generate_frames loop: the capture is set back to its first frame, the
\* loop is left only when the flag is off, and with a video of at least one
\* frame a further frame is processed (estimator, controller, publish)
\* unless the streaming is stopped first.
C18_EndOfStreamRestarts ==
    /\ [][(life.pc = "body" /\ life.pos = life.frames /\ life'.pc # "body") =>
              (life'.pc = "while" /\ life'.pos = 0 /\ life'.cap = "open")]_vars
    /\ [][(life.pc # "none" /\ life'.pc = "none") => ~life.streaming]_vars
    /\ (life.pc = "body" /\ life.pos = life.frames /\ life.frames >= 1)
           ~> (life.pc = "while" /\ life.pos = 0 /\ life.frame_count = 0)
    /\ (life.pc = "while" /\ life.pos = 0 /\ life.frame_count = 0 /\ life.frames >= 1)
           ~> (life.frame_count = 1 \/ life.pc = "none")

\* after a restart at the end of the video the first frame was processed again
C18_Witness ==
    /\ life.streaming /\ life.pc = "while" /\ life.frames = 1
    /\ life.pos = 1 /\ life.frame_count = 1
    /\ Len(ws.vehicle_history) = 2

\* C19: once stop_streaming() has cleared the flag of a running
\* YoloWebStreamer, no generate_frames loop passes its test and no new call
\* enters the loop while the flag stays off (the pass already in its body
\* may complete), the loop then returns, and a second stop_streaming()
\* changes nothing.
C19_StopEndsCycles ==
    [][/\ ~life.streaming =>
            /\ ~(life.pc = "while" /\ life'.pc = "body")
            /\ ~(life.pc = "none" /\ life'.pc # "none")
       /\ (~life.streaming /\ WS_stop_streaming) => (life' = life /\ ws' = ws)
      ]_vars

\* the loop processed frames, was stopped and has returned
C19_Witness ==
    /\ stopped /\ ~life.streaming
    /\ life.pc = "none" /\ life.cap = "released" /\ life.frame_count >= 1

\* C20: the lifecycle is Idle -> Running -> Stopped only: once
\* stop_streaming() has been called, start_streaming() has no effect and no
\* generate_frames loop passes its test or is entered again, and a start
\* while running changes nothing.
C20_StoppedIsFinal ==
    [][/\ stopped =>
            /\ ~(life.pc = "while" /\ life'.pc = "body")
            /\ ~(life.pc = "none" /\ life'.pc # "none")
            /\ WS_start_streaming => life' = life
       /\ (life.streaming /\ WS_start_streaming) => (life' = life /\ ws' = ws)
      ]_vars

\* C21: the frame_number of the snapshots that one generate_frames call
\* publishes is strictly increasing from each snapshot to the next, also
\* when the video was restarted at its end in between.
C21_SequenceIncreases ==
    [][\A c \in LifeCounts, dt \in LifeDeltas :
          (/\ WS_generate_frames_read(c, dt)
           /\ life.pos # life.frames
           /\ ws.websocket_clients # {}
           /\ life.frame_number > 0) =>
              life'.frame_number > life.frame_number
      ]_vars

\* C22: when the detector of WorkingYoloDetector fails on a frame the cycle
\* is skipped: no count is appended to the window and no snapshot is
\* published for the frame, while the elapsed time of the signal still
\* advances by the delta of the frame.
C22_FailedDetectionSkipped ==
    [][\A c \in Counts, dt \in LoopDeltas :
          WY_process_video(FALSE, c, dt) =>
              /\ wy'.vehicle_counts = wy.vehicle_counts
              /\ wy'.data = wy.data
              /\ wy'.signal_timer \in {wy.signal_timer + dt, 0}
      ]_vars

\* C23: when the frame source cannot be opened, the start is aborted: after
\* the failed open the streaming flag is false and no cycle loop is entered.
C23_FailedOpenAborts ==
    [][\A frames \in 0..MaxVideoFrames :
          (life.streaming /\ WS_generate_frames_open(FALSE, frames)) =>
              (~life'.streaming /\ life'.pc = "none")
      ]_vars

\* C28: the time between the construction of a YoloWebStreamer and its first
\* cycle is not counted toward the Green dwell: the first cycle leaves the
\* signal Green.
C28_FirstCycleStaysGreen ==
    [][\A c \in Counts, dt \in Deltas :
          (ws.vehicle_history = <<>> /\ WS_generate_frames(c, dt)) =>
              ws'.current_signal = "green"
      ]_vars

\* the submissions so far are `zeros` counts of 0 followed by `twenties`
\* counts of 20
Scenario(zeros, twenties) ==
    /\ Len(fed) = zeros + twenties
    /\ \A i \in 1..Len(fed) : fed[i] = (IF i <= zeros THEN 0 ELSE 20)


\* YoloWebStreamer fed with a run of zeros followed by a run of twenties
ScenarioCounts == {0, 20}

InitScenario == Init /\ program = "YoloWebStreamer"

NextScenario ==
    \E c \in ScenarioCounts, dt \in EstDeltas :
        /\ Len(fed) < MaxFed
        /\ now + dt <= MaxEstTime
        /\ c = 0 => (Len(fed) < MaxZeros /\ \A i \in 1..Len(fed) : fed[i] = 0)
        /\ WS_generate_frames(c, dt)
        /\ fed' = Append(fed, c)
        /\ UNCHANGED <<sim_time, transitions, net, wt, life, stopped, loops, entered, pt>>

SpecScenario == InitScenario /\ [][NextScenario]_vars

\* C25 as stated: after 0,0,0,0 and then 20s, the level is High on the update
\* that appends the 23rd 20 and on no earlier update.
C25_HighAtThe23rd ==
    \A n \in 0..MaxFed :
        Scenario(4, n) =>
            /\ (n < 23 => ws.congestion_level # "high")
            /\ (n = 23 => ws.congestion_level = "high")

\* C25 amended: after 0,0,0,0 and then 20s, the level is High on the update
\* that appends the 12th 20 (the window then holds 16 counts of sum 240,
\* average 15) and on no earlier update.
C25_HighAtThe12th ==
    \A n \in 0..MaxFed :
        Scenario(4, n) =>
            /\ (n < 12 => ws.congestion_level # "high")
            /\ (n = 12 => ws.congestion_level = "high")

C25_Witness ==
    /\ Scenario(4, 12)
    /\ ws.congestion_level = "high"
    /\ ws.avg_vehicles = Average(fed)

(***************************************************************************)
(* Pacing of TrafficDetector.process_video: the locals frame_delay,        *)
(* last_time, current_time and elapsed, with the time in whole seconds     *)
(* (videos of at most one frame per second).  td.slept is the argument of  *)
(* the last asyncio.sleep, 0 when the loop did not sleep.                  *)
(***************************************************************************)
MaxPaceTime == 12    \* the clock of a pacing run stops here

FrameDelays == {2, 3}             \* 1.0 / fps
ReadTimes == {0, 1}               \* duration of cap.read()
WorkTimes == {0, 1, 2, 3, 4}      \* duration of detection, drawing and broadcast
PaceCounts == {5}

\* "Maintain frame rate": the argument of asyncio.sleep, 0 for no sleep
\* (TD_sleepFullInterval: the variant that sleeps a whole frame_delay after
\*  every cycle)
TD_sleepFullInterval(elapsed, frame_delay) == frame_delay
TD_sleep(elapsed, frame_delay) ==
    IF elapsed < frame_delay THEN frame_delay - elapsed ELSE 0

\* the video is opened: frame_delay and last_time are set
TD_process_video_open(frame_delay) ==
    /\ td.pc = "start"
    /\ td' = [td EXCEPT !.pc = "read", !.frame_delay = frame_delay, !.last_time = now]
    /\ UNCHANGED <<program, now, ws, vd, wy>>

\* cap.read() returns a frame after read_time; current_time = time.time()
TD_process_video_read(read_time) ==
    /\ td.pc = "read"
    /\ now' = now + read_time
    /\ td' = [td EXCEPT !.pc = "cycle", !.current_time = now']
    /\ UNCHANGED <<program, ws, vd, wy>>

\* the cycle proper, from the detection to last_time = current_time
TD_process_video_cycle(vehicle_count) ==
    /\ td.pc = "cycle"
    /\ td' = [TD_cycle(td, vehicle_count, td.current_time - td.last_time)
                EXCEPT !.pc = "pace", !.last_time = td.current_time]
    /\ UNCHANGED <<program, now, ws, vd, wy>>

\* "Maintain frame rate": work_time after current_time the loop computes
\* elapsed and sleeps for the rest of frame_delay, if any
TD_process_video_pace(work_time) ==
    /\ td.pc = "pace"
    /\ LET elapsed == (now + work_time) - td.current_time
           sleep == TD_sleep(elapsed, td.frame_delay)
       IN  /\ now' = now + work_time + sleep
           /\ td' = [td EXCEPT !.pc = "read", !.elapsed = elapsed, !.slept = sleep]
    /\ UNCHANGED <<program, ws, vd, wy>>

InitPace == Init /\ program = "TrafficDetector"

PaceOpen ==
    \E frame_delay \in FrameDelays :
        /\ TD_process_video_open(frame_delay)
        /\ UNCHANGED <<fed, sim_time, transitions, net, wt, life, stopped, loops, entered, pt>>

PaceRead ==
    \E read_time \in ReadTimes :
        /\ now + read_time <= MaxPaceTime
        /\ TD_process_video_read(read_time)
        /\ UNCHANGED <<fed, sim_time, transitions, net, wt, life, stopped, loops, entered, pt>>

PaceCycle ==
    \E c \in PaceCounts :
        /\ TD_process_video_cycle(c)
        /\ UNCHANGED <<fed, sim_time, transitions, net, wt, life, stopped, loops, entered, pt>>

PacePace ==
    \E work_time \in WorkTimes :
        /\ now + work_time + td.frame_delay <= MaxPaceTime
        /\ TD_process_video_pace(work_time)
        /\ UNCHANGED <<fed, sim_time, transitions, net, wt, life, stopped, loops, entered, pt>>

NextPace == PaceOpen \/ PaceRead \/ PaceCycle \/ PacePace

SpecPace == InitPace /\ [][NextPace]_vars

\* C29: a cycle of TrafficDetector.process_video that ends before frame_delay
\* has passed since its timestamp sleeps exactly the rest of frame_delay, so
\* that the loop resumes frame_delay after the timestamp; a cycle that takes
\* frame_delay or longer is followed by no sleep, the loop resumes at the end
\* of the cycle, and every pass of the loop runs one cycle on one frame
\* whatever time has passed.
C29_SleepsTheRemainder ==
    /\ [](td.pc = "read" /\ td.vehicle_counts # <<>> =>
            IF td.elapsed < td.frame_delay
            THEN /\ td.slept = td.frame_delay - td.elapsed
                 /\ now = td.current_time + td.frame_delay
            ELSE /\ td.slept = 0
                 /\ now = td.current_time + td.elapsed)
    /\ [][/\ Len(td'.vehicle_counts) <= Len(td.vehicle_counts) + 1
          /\ td.pc = "read" => td'.pc \in {"read", "cycle"}
          /\ td.pc = "cycle" =>
                (td' = td \/ Len(td'.vehicle_counts) = Len(td.vehicle_counts) + 1)
         ]_vars

\* an overrun after an early cycle: the loop is back at the read without
\* having slept
C29_Witness ==
    /\ td.pc = "read"
    /\ Len(td.vehicle_counts) >= 2
    /\ td.elapsed > td.frame_delay
    /\ td.slept = 0
    /\ now = td.current_time + td.elapsed

(***************************************************************************)
(* Two request threads on one YoloWebStreamer                              *)
(***************************************************************************)
MaxThreadTime == 31  \* the clock of a run with two threads stops here

ThreadCounts == {0}
ThreadDeltas == {0, 31}

InitThreads == Init /\ program = "YoloWebStreamer" /\ ws.websocket_clients = {}

ThreadsStart ==
    /\ WS_start_streaming
    /\ UNCHANGED <<fed, sim_time, transitions, net, wt, stopped, loops, entered, pt>>

ThreadsRequest ==
    \E t \in Threads :
        /\ WS_video_feed(t)
        /\ UNCHANGED <<fed, sim_time, transitions, net, wt, life, stopped, entered, pt>>

ThreadsTime ==
    \E t \in Threads, c \in ThreadCounts, dt \in ThreadDeltas :
        /\ now + dt <= MaxThreadTime
        /\ WS_update_traffic_signal_time(t, c, dt)
        /\ UNCHANGED <<fed, sim_time, transitions, net, wt, life, stopped, entered, pt>>

ThreadsAppend ==
    \E t \in Threads :
        /\ WS_update_traffic_signal_append(t)
        /\ UNCHANGED <<fed, sim_time, transitions, net, wt, life, stopped, entered, pt>>

ThreadsPop ==
    \E t \in Threads :
        /\ WS_update_traffic_signal_pop(t)
        /\ UNCHANGED <<fed, sim_time, transitions, net, wt, life, stopped, entered, pt>>

ThreadsAverage ==
    \E t \in Threads :
        /\ WS_update_traffic_signal_average(t)
        /\ UNCHANGED <<fed, sim_time, transitions, net, wt, life, stopped, entered, pt>>

ThreadsLogic ==
    \E t \in Threads :
        /\ WS_update_traffic_signal_logic(t)
        /\ UNCHANGED <<fed, sim_time, transitions, net, wt, life, stopped, entered, pt>>

NextThreads ==
    \/ ThreadsStart
    \/ ThreadsRequest
    \/ ThreadsTime
    \/ ThreadsAppend
    \/ ThreadsPop
    \/ ThreadsAverage
    \/ ThreadsLogic

SpecThreads == InitThreads /\ [][NextThreads]_vars

\* thread t is inside update_traffic_signal
InUpdate(t) == loops[t].pc \in {"append", "pop", "average", "logic"}

\* C26: no two executions of generate_frames run update_traffic_signal on
\* the same YoloWebStreamer at the same time.
C26_OneLoopUpdates ==
    \A t, u \in Threads : (InUpdate(t) /\ InUpdate(u)) => t = u

\* C27: whenever YoloWebStreamer computes the window average, the window
\* holds at most 30 counts.
C27_AverageOverAtMost30 ==
    \A t \in Threads : loops[t].pc = "average" => Len(ws.vehicle_history) <= 30

\* C30: Yellow is held for more than 3 seconds before the signal of
\* YoloWebStreamer turns Red.
C30_YellowHeld ==
    [][(ws.current_signal = "yellow" /\ ws'.current_signal = "red") =>
            now' - ws.last_signal_time > 3
      ]_vars

\* C24: once the streaming flag of YoloWebStreamer is cleared, a
\* generate_frames loop that is still running can take its next step, the
\* one that ends its current pass or the loop test that exits and releases
\* the capture, wherever it stands: it is never held up.
C24_StopObserved ==
    (~life.streaming /\ life.pc # "none") => ENABLED (LifeWhile \/ LifeRead)

\* C32: after every call of update_traffic_signal of TrafficDetector and of
\* YoloWebStreamer, signal_timer is between 0 and the dwell time of the
\* current signal for the congestion level of that call, and so is the
\* signal_timer of the snapshot.
C32_TimerWithinDwell ==
    /\ td.data # <<>> =>
          /\ td.signal_timer >= 0
          /\ td.signal_timer <= Dwell(td.current_signal, td.data[1].congestion_level)
          /\ td.data[1].signal_timer = td.signal_timer
    /\ ws.vehicle_history # <<>> =>
          /\ ws.signal_timer >= 0
          /\ ws.signal_timer <= Dwell(ws.current_signal, ws.congestion_level)
          /\ ws.data # <<>> => ws.data[1].signal_timer = ws.signal_timer

\* a call that found the timer beyond the dwell time and reset it, and a call
\* that left a positive timer
C32_Witness ==
    \/ td.data # <<>> /\ td.current_signal = "red" /\ td.signal_timer = 2
    \/ ws.data # <<>> /\ ws.current_signal = "red" /\ ws.signal_timer = 2

(***************************************************************************)
(* TrafficDetector under any sequence of congestion levels and deltas,     *)
(* with the simulated time and the time of the last signal change recorded *)
(***************************************************************************)
MaxDwellCycles == 6  \* cycles of a dwell run

DwellCounts == {0, 5, 20}
DwellDeltas == {0, 4, 16}

InitDwell == Init /\ program = "TrafficDetector"

NextDwell ==
    \E c \in DwellCounts, dt \in DwellDeltas :
        /\ Len(td.vehicle_counts) < MaxDwellCycles
        /\ TD_process_video(c, dt)
        /\ sim_time' = sim_time + dt
        /\ transitions' = IF td'.current_signal # td.current_signal
                          THEN transitions + 1 ELSE transitions
        /\ entered' = IF td'.current_signal # td.current_signal
                      THEN sim_time' ELSE entered
        /\ UNCHANGED <<fed, net, wt, life, stopped, loops, pt>>

SpecDwell == InitDwell /\ [][NextDwell]_vars

\* the smallest dwell time of a signal state over the congestion levels
MinDwell(signal) ==
    Min(Dwell(signal, "low"), Min(Dwell(signal, "medium"), Dwell(signal, "high")))

\* C31: in TrafficDetector every visit to a signal state lasts strictly
\* longer than the smallest dwell time of the state: when the signal changes,
\* more than 15 s (Green, Red) or more than 3 s (Yellow) of deltas have
\* accumulated since the state was entered.
C31_VisitExceedsMinDwell ==
    [][td'.current_signal # td.current_signal =>
          sim_time' - entered > MinDwell(td.current_signal)
      ]_vars

\* Green, Yellow and Red have each been left once
C31_Witness ==
    /\ transitions = 3
    /\ td.current_signal = "green"
    /\ entered = sim_time

(***************************************************************************)
(* TrafficDetector whose cycles keep executing, every one with a positive  *)
(* delta.  The detector may change the count it reports at any cycle, as   *)
(* long as the window of the last 30 counts shows one change at most.      *)
(***************************************************************************)
TickCounts == {0, 5, 20}
TickDeltas == {7, 40}

\* the counts of the window are a run of one count followed by a run of another
TwoRuns(window) ==
    \E k \in 0..Len(window) :
        /\ \A i \in 1..k : window[i] = window[1]
        /\ \A i \in (k + 1)..Len(window) : window[i] = window[Len(window)]

InitTick == Init /\ program = "TrafficDetector"

TickCycle ==
    \E c \in TickCounts, dt \in TickDeltas :
        /\ TwoRuns(DequeAppend(td.vehicle_counts, c, 30))
        /\ TD_process_video(c, dt)
        /\ UNCHANGED <<fed, sim_time, transitions, net, wt, life, stopped, loops, entered, pt>>

NextTick == TickCycle

SpecTick == InitTick /\ [][NextTick]_vars /\ WF_vars(TickCycle)

\* C33: when the cycles of TrafficDetector keep executing with positive
\* deltas, whatever the congestion levels, the signal is Green infinitely
\* often, Yellow infinitely often and Red infinitely often.
C33_EveryStateLeft ==
    /\ []<>(td.current_signal = "green" /\ td.data # <<>>)
    /\ []<>(td.current_signal = "yellow")
    /\ []<>(td.current_signal = "red")

\* the signal is back at Green after a whole round, with a full window that
\* shows a change of the congestion level
C33_Witness ==
    /\ td.current_signal = "green"
    /\ td.signal_timer = 0
    /\ Len(td.vehicle_counts) = 30
    /\ td.vehicle_counts[1] # td.vehicle_counts[30]

\* the congestion level of an average, by the thresholds 5 and 15
LevelOf(avg) ==
    IF avg.num < 5 * avg.den THEN "low"
    ELSE IF avg.num < 15 * avg.den THEN "medium"
    ELSE "high"

\* C34: in every snapshot that a cycle of YoloWebStreamer publishes,
\* congestion_level is the level of the avg_vehicle_count of the same
\* snapshot, avg_vehicle_count is the mean of the window after the cycle's
\* update, and traffic_signal and signal_timer are the signal and timer that
\* the cycle's update left.
C34_SnapshotConsistent ==
    [][\A c \in Counts, dt \in Deltas :
          (WS_generate_frames(c, dt) /\ ws.websocket_clients # {}) =>
              LET self == WS_update_traffic_signal(ws, c, now + dt)
                  data == ws'.data[1]
              IN  /\ data.vehicle_count = c
                  /\ IsMeanOf(data.avg_vehicle_count, ws'.vehicle_history)
                  /\ data.congestion_level = LevelOf(data.avg_vehicle_count)
                  /\ data.traffic_signal = self.current_signal
                  /\ data.signal_timer = self.signal_timer
                  /\ ws'.current_signal = data.traffic_signal
                  /\ ws'.signal_timer = data.signal_timer
      ]_vars

\* a snapshot published two seconds after the signal turned Red
C34_Witness ==
    /\ ws.data # <<>>
    /\ ws.data[1].congestion_level = "high"
    /\ ws.data[1].traffic_signal = "red"
    /\ ws.data[1].signal_timer = 2
    /\ ws.signal_timer = 2

\* C35: broadcast_data of YoloWebStreamer changes the set of subscribers
\* only when it returns, and then only by removing subscribers of its copy
\* whose send failed in this publish: a subscriber whose send succeeded and a
\* subscriber added during the publish are kept; neither the sends nor the
\* return change the history window, the signal or any other field.
C35_PublishOnlyRemovesFailed ==
    [][/\ \A w \in Websockets, o \in SendOutcomes :
             WS_broadcast_data_send(w, o) => ws' = ws
       /\ WS_broadcast_data_return =>
             /\ ws'.websocket_clients \subseteq ws.websocket_clients
             /\ \A w \in ws.websocket_clients \ ws'.websocket_clients :
                   w \in pub.copy /\ pub.id \notin received[w]
             /\ \A w \in ws.websocket_clients :
                   (pub.id \in received[w] \/ w \notin pub.copy) =>
                       w \in ws'.websocket_clients
             /\ [ws' EXCEPT !.websocket_clients = ws.websocket_clients] = ws
      ]_vars

\* a publish has returned: the subscriber whose send failed is gone, one
\* whose send succeeded and one that was not in the copy are in the set
C35_Witness ==
    /\ pub.pc = "idle"
    /\ pub.id >= 1
    /\ \E a, b, c \in Websockets :
          /\ a \in pub.disconnected /\ a \notin ws.websocket_clients
          /\ b \in ws.websocket_clients /\ pub.id \in received[b]
          /\ c \in ws.websocket_clients /\ reg[c] = pub.id /\ received[c] = {}

\* the fields of the instance that update_traffic_signal computes
Controller(self) ==
    <<self.vehicle_history, self.avg_vehicles, self.congestion_level,
      self.current_signal, self.last_signal_time, self.signal_timer>>

\* C37: a cycle of YoloWebStreamer.generate_frames with no subscriber in the
\* set updates the history window and the signal exactly as the same cycle
\* would with any set of subscribers, and publishes nothing: no broadcast is
\* started, nothing is sent, no snapshot is built and the set stays empty.
C37_CycleWithoutSubscribers ==
    [][\A c \in HubCounts, dt \in HubDeltas :
          (WS_publish(c, dt) /\ ws.websocket_clients = {}) =>
              /\ \A clients \in SUBSET Websockets :
                    Controller(ws') =
                        Controller(WS_update_traffic_signal(
                            [ws EXCEPT !.websocket_clients = clients], c, now + dt))
              /\ Len(ws'.vehicle_history) = Len(ws.vehicle_history) + 1
              /\ ws'.websocket_clients = {}
              /\ ws'.data = ws.data
              /\ pub' = pub
              /\ received' = received
      ]_vars

\* cycles have run without any subscriber and without any publish
C37_Witness ==
    /\ ws.websocket_clients = {}
    /\ Len(ws.vehicle_history) = 2
    /\ pub.id = 0
    /\ pub.pc = "idle"
    /\ \A w \in Websockets : received[w] = {}

\* C36: every snapshot that WorkingTrafficDetector sends to a websocket has
\* a frame_count above the frame_count of every snapshot the websocket was
\* sent before: the snapshots arrive in the order of their production and
\* none arrives twice.
C36_QueueOrder ==
    [][\A o \in SendOutcomes :
          (WT_broadcast_loop_send(o) /\ o = "ok") =>
              \A i \in received[pub.cur] : i < pub.id
      ]_vars

(***************************************************************************)
(* parse_traffic.py run on a file of at most two roads                     *)
(***************************************************************************)
InitParse == Init /\ program = "parse_traffic"

ParseExtract ==
    /\ program = "parse_traffic"
    /\ pt.pc = "load"
    /\ \E n \in RoadCounts : \E roads \in [1..n -> Roads] :
          PT_extract_road_segments(roads)
    /\ UNCHANGED <<program, now, ws, vd, td, wy, fed, sim_time, transitions, net,
                   wt, life, stopped, loops, entered>>

ParseBuild ==
    /\ PT_build_graph
    /\ UNCHANGED <<program, now, ws, vd, td, wy, fed, sim_time, transitions, net,
                   wt, life, stopped, loops, entered>>

ParseDetect ==
    /\ PT_detect_intersections
    /\ UNCHANGED <<program, now, ws, vd, td, wy, fed, sim_time, transitions, net,
                   wt, life, stopped, loops, entered>>

NextParse == ParseExtract \/ ParseBuild \/ ParseDetect

SpecParse == InitParse /\ [][NextParse]_vars

\* the rounded points of a road, and the number of its consecutive pairs
Rounded(road) == [i \in 1..Len(road.geometry) |-> round_point(road.geometry[i])]

Pairs(road) == IF road.geometry = <<>> THEN 0 ELSE Len(road.geometry) - 1

RECURSIVE PairsUpTo(_, _)
PairsUpTo(roads, n) == IF n = 0 THEN 0 ELSE PairsUpTo(roads, n - 1) + Pairs(roads[n])

\* how often the entry is in the list
Occurrences(list, entry) == Cardinality({k \in 1..Len(list) : list[k] = entry})

\* C38: after every road that build_graph has processed, all_edges holds one
\* entry per pair of consecutive points of the roads processed, in their
\* order (number of points - 1 entries for a road with points), and the graph
\* is symmetric: for every such pair p1, p2 the point p2 is a neighbour of p1
\* and p1 a neighbour of p2 with the edge data of the pair, and every entry
\* of the graph has its reverse entry, as many times.
C38_GraphSymmetric ==
    pt.pc \in {"build", "detect", "done"} =>
        /\ Len(pt.all_edges) = PairsUpTo(pt.roads, pt.road)
        /\ \A r \in 1..pt.road : \A i \in 1..Pairs(pt.roads[r]) :
              LET edge == pt.all_edges[PairsUpTo(pt.roads, r - 1) + i]
                  p1 == Rounded(pt.roads[r])[i]
                  p2 == Rounded(pt.roads[r])[i + 1]
              IN  /\ edge.start = p1 /\ edge.end = p2
                  /\ edge.data.road_id = pt.roads[r].id
                  /\ Occurrences(pt.graph[p1], [node |-> p2, data |-> edge.data]) >= 1
                  /\ Occurrences(pt.graph[p2], [node |-> p1, data |-> edge.data]) >= 1
        /\ \A p \in Points : \A k \in 1..Len(pt.graph[p]) :
              LET entry == pt.graph[p][k]
              IN  Occurrences(pt.graph[p], entry) =
                      Occurrences(pt.graph[entry.node], [node |-> p, data |-> entry.data])
        /\ \A p \in Points : \A k \in 1..Len(pt.graph[p]) :
              \E e \in 1..Len(pt.all_edges) :
                  /\ pt.all_edges[e].data = pt.graph[p][k].data
                  /\ {pt.all_edges[e].start, pt.all_edges[e].end} = {p, pt.graph[p][k].node}

\* two roads of three points each were processed, one of them with two
\* points that round to the same point
C38_Witness ==
    /\ pt.pc = "done"
    /\ Len(pt.roads) = 2
    /\ pt.roads[1].id # pt.roads[2].id
    /\ Len(pt.all_edges) = 4
    /\ \E e \in 1..4 : pt.all_edges[e].start = pt.all_edges[e].end
    /\ \E e \in 1..4 : pt.all_edges[e].start # pt.all_edges[e].end

\* the point is the first or the last rounded point of the road
EndOf(road, p) ==
    /\ road.geometry # <<>>
    /\ p \in {Rounded(road)[1], Rounded(road)[Len(road.geometry)]}

\* the road_ids of the roads that pass through the point
RoadIdsAt(roads, p) ==
    {roads[r].id : r \in {r \in 1..Len(roads) :
                            \E i \in 1..Len(roads[r].geometry) : Rounded(roads[r])[i] = p}}

\* C39: detect_intersections returns a point exactly when it lies on roads
\* of more than one road_id or is the first or last point of a road; with
\* the point it returns the entries of point_to_roads for it.
C39_IntersectionsExact ==
    pt.pc = "done" =>
        \A p \in Points :
            /\ p \in DOMAIN pt.intersections <=>
                  \/ Cardinality(RoadIdsAt(pt.roads, p)) > 1
                  \/ \E r \in 1..Len(pt.roads) : EndOf(pt.roads[r], p)
            /\ p \in DOMAIN pt.intersections =>
                  pt.intersections[p] = pt.point_to_roads[p]

\* an interior point of a single road was not returned, and a point that two
\* roads of different road_id pass through was
C39_Witness ==
    /\ pt.pc = "done"
    /\ \E p \in Points :
          /\ p \notin DOMAIN pt.intersections
          /\ pt.point_to_roads[p] # <<>>
    /\ \E p \in DOMAIN pt.intersections : Cardinality(RoadIdsAt(pt.roads, p)) > 1
====
